---- MODULE Spec2Model ----
(***************************************************************************)
(* A model of the lsync subsystem of my-toolbox: the transfer planner      *)
(* (lsync/sync.py), the synchronization tree (lsync/sync_tree.py), the     *)
(* git snapshot cache (lsync/git_meta.py) and the terminal canvas (ui.py). *)
(*                                                                         *)
(* Strings are sequences of tokens.  A token is a chunk of characters      *)
(* that the program never looks inside ("home", "--delete", "-nda"); the   *)
(* characters the program does look at ("/", ",", "\r", "\n") are tokens   *)
(* of their own, so split, rstrip, endswith and path parsing are computed  *)
(* on the sequence as the code computes them on the characters.            *)
(***************************************************************************)
EXTENDS Integers, Sequences, FiniteSets, TLC

VARIABLES
    \* ---- environment of one invocation
    cwd,            \* Path.cwd()
    dirs,           \* the directories that exist on disk (posix strings)
    files,          \* the files that exist on disk: posix string -> content
    env_extra,      \* os.environ LSYNC_EXTRA_SYNC_DIRS ("" when unset)
    NDA_DIRS,       \* sync.NDA_DIRS, read from LSYNC_NDA_DIRS at import
    git_worktrees,  \* stdout of `git worktree list --porcelain` per base repo
    git_rev,        \* the state of the repositories (selects the capture output)
    \* ---- the sync command (sync.py)
    pc,             \* position of the sync command
    tool,           \* the SyncTool object (fields of self)
    rsync_cmds,     \* the commands generated so far, one per host visited
    \* ---- the canvas (ui.py)
    ui_pc,          \* position inside UITool.ui_tool
    ui,             \* the UITool object: max_lines, cur_line, cur_col, line_pos
    term,           \* the terminal: cursor row/col, cursor visibility, cells
    sent,           \* per line: characters passed to update_char since its reset
    \* ---- the snapshot cache read path (git_meta.py)
    captured,       \* stdout of the capture commands of the last collect_all
    discovered,     \* the worktree map the last _write_worktree_map discovered
    collect_runs,   \* collect_all runs made since the tree last changed
    result,         \* what the last call of a reader or of sync_root returned
    \* ---- the run of the transfers (sync.py, utils.py, sync_log.py)
    procs,          \* the rsync processes spawned, with their watcher threads
    loop,           \* position of the polling loop of _ui_thread
    calls,          \* the update_char calls of the polling loop: <<line, char>>
    log,            \* the lines of ~/.lsync.log
    exit_code       \* exit status of the command (NoInt while it runs)

vars == <<cwd, dirs, files, env_extra, NDA_DIRS, git_worktrees, git_rev,
          pc, tool, rsync_cmds, ui_pc, ui, term, sent, captured, discovered,
          collect_runs, result, procs, loop, calls, log, exit_code>>

envVars == <<cwd, env_extra, NDA_DIRS, git_worktrees>>
syncVars == <<pc, tool, rsync_cmds>>
uiVars == <<ui_pc, ui, term, sent>>
runVars == <<procs, loop, calls, log>>
outVars == <<collect_runs, result, exit_code>>

(***************************************************************************)
(* Bounds of the model.                                                    *)
(***************************************************************************)
MaxHosts == 2       \* hosts of the largest configured server
MaxCol == 2         \* characters written to one canvas line before a reset
MaxLines == 2       \* lines of the canvas
MaxRev == 2         \* changes made to the repositories in one behaviour
MaxRuns == 2        \* collect_all runs in a row with no change between them
MaxDepth == 4       \* components of the working directory
PipeCapacity == 2   \* characters an operating-system pipe holds

None == <<"None">>  \* Python's None (no string of the model has this token)

(***************************************************************************)
(* str methods.                                                            *)
(***************************************************************************)
SEP == "/"

\* str.split(sep): the pieces between the separators, empty pieces kept.
RECURSIVE SplitOn(_, _)
SplitOn(s, sep) ==
    IF s = <<>> THEN << <<>> >>
    ELSE LET rest == SplitOn(Tail(s), sep)
         IN  IF Head(s) = sep THEN << <<>> >> \o rest
             ELSE << <<Head(s)>> \o Head(rest) >> \o Tail(rest)

\* str.rstrip(ch)
RECURSIVE RStrip(_, _)
RStrip(s, ch) ==
    IF s # <<>> /\ s[Len(s)] = ch THEN RStrip(SubSeq(s, 1, Len(s) - 1), ch) ELSE s

\* str.endswith(suffix)
EndsWith(s, suffix) ==
    /\ Len(s) >= Len(suffix)
    /\ SubSeq(s, Len(s) - Len(suffix) + 1, Len(s)) = suffix

\* sep.join(parts)
RECURSIVE JoinWith(_, _)
JoinWith(parts, sep) ==
    IF parts = <<>> THEN <<>>
    ELSE IF Len(parts) = 1 THEN parts[1]
    ELSE parts[1] \o <<sep>> \o JoinWith(Tail(parts), sep)

(***************************************************************************)
(* pathlib.Path as the code uses it: a path is its root and its parts.     *)
(***************************************************************************)
\* Path(s): split on "/", empty and "." components dropped (so a trailing
\* separator is dropped too).
PathOf(s) ==
    [root  |-> (s # <<>> /\ s[1] = SEP),
     parts |-> SelectSeq(SplitOn(s, SEP), LAMBDA c : c # <<>> /\ c # <<".">>)]

\* Path.as_posix()
AsPosix(p) ==
    IF p.root THEN <<SEP>> \o JoinWith(p.parts, SEP)
    ELSE IF p.parts = <<>> THEN <<".">>
    ELSE JoinWith(p.parts, SEP)

\* p / q
JoinPath(p, q) ==
    IF q.root THEN q ELSE [root |-> p.root, parts |-> p.parts \o q.parts]

\* Path.name
Name(p) == IF p.parts = <<>> THEN <<>> ELSE p.parts[Len(p.parts)]

\* Path.parent
Parent(p) ==
    IF p.parts = <<>> THEN p
    ELSE [root |-> p.root, parts |-> SubSeq(p.parts, 1, Len(p.parts) - 1)]

\* p.relative_to(base) is defined when base is a lexical prefix of p.
IsRelativeTo(p, base) ==
    /\ p.root = base.root
    /\ Len(base.parts) <= Len(p.parts)
    /\ SubSeq(p.parts, 1, Len(base.parts)) = base.parts

RelativeTo(p, base) ==
    [root |-> FALSE, parts |-> SubSeq(p.parts, Len(base.parts) + 1, Len(p.parts))]

\* Path.is_dir(), Path.exists() against the disk
IsDir(p) == AsPosix(p) \in dirs
Exists(p) == AsPosix(p) \in dirs \/ AsPosix(p) \in DOMAIN files

(***************************************************************************)
(* Ordered dictionaries (Python dict, json object): sequences of           *)
(* <<key, value>> in insertion order.                                      *)
(***************************************************************************)
DictHas(d, k) == \E i \in 1..Len(d) : d[i][1] = k
DictGet(d, k) == d[CHOOSE i \in 1..Len(d) : d[i][1] = k][2]
DictSet(d, k, v) ==
    IF DictHas(d, k)
    THEN [i \in 1..Len(d) |-> IF d[i][1] = k THEN <<k, v>> ELSE d[i]]
    ELSE Append(d, <<k, v>>)

(***************************************************************************)
(* lsync/sync_tree.py                                                      *)
(***************************************************************************)
GIT_META_DIR_NAME == <<"commit_msg">>
TOP_DIRS == { <<"common_sync">> }
BASE_SYNC_DIRS == << <<"scripts">>, <<"sglang">>, <<"my-toolbox">> >>

NotFound == [root |-> FALSE, parts |-> << <<"FileNotFoundError">> >>]

\* Path.resolve() of the working directory: os.getcwd() already returns the
\* physical path, so the second pass of sync_root starts where the first did.
Resolve(p) == p

RECURSIVE WalkUpOutermost(_)
WalkUpOutermost(d) ==
    IF AsPosix(d) = <<SEP>> THEN NotFound
    ELSE IF WalkUpOutermost(Parent(d)) # NotFound THEN WalkUpOutermost(Parent(d))
    ELSE IF Name(d) \in TOP_DIRS THEN d
    ELSE NotFound

\* The while loop of sync_root from one start.
RECURSIVE WalkUp(_)
WalkUp(d) ==
    IF AsPosix(d) = <<SEP>> THEN NotFound
    ELSE IF Name(d) \in TOP_DIRS THEN d
    ELSE WalkUp(Parent(d))

sync_root ==
    IF WalkUp(cwd) # NotFound THEN WalkUp(cwd) ELSE WalkUp(Resolve(cwd))

git_meta_dir == JoinPath(sync_root, PathOf(GIT_META_DIR_NAME))

is_git_repo(path) == IsDir(path) /\ Exists(JoinPath(path, PathOf(<<".git">>)))

\* The loop over result.stdout.splitlines(): st = <<entries, current>>.
ParseLine(st, line) ==
    LET entries == st[1]
        current == st[2]
    IN  IF line # <<>> /\ Head(line) = "worktree "
        THEN << IF current # <<>> THEN Append(entries, current) ELSE entries,
                << << <<"name">>, Name(PathOf(Tail(line)))>> >> >>
        ELSE IF line # <<>> /\ Head(line) = "HEAD "
        THEN << entries,
                DictSet(current, <<"head">>,
                        SubSeq(Tail(line), 1, IF Len(Tail(line)) < 8 THEN Len(Tail(line)) ELSE 8)) >>
        ELSE IF line # <<>> /\ Head(line) = "branch "
        THEN << entries,
                DictSet(current, <<"branch">>,
                        IF Len(line) > 1 /\ line[2] = "refs/heads/"
                        THEN SubSeq(line, 3, Len(line)) ELSE Tail(line)) >>
        ELSE st

RECURSIVE ParseLines(_, _)
ParseLines(st, lines) ==
    IF lines = <<>> THEN st ELSE ParseLines(ParseLine(st, Head(lines)), Tail(lines))

\* The entries parsed from the output of git for one base repository.
ParsedEntries(repo) ==
    LET st == ParseLines(<< <<>>, <<>> >>, git_worktrees[repo])
    IN  IF st[2] # <<>> THEN Append(st[1], st[2]) ELSE st[1]

\* The entries of one base repository, stale ones dropped.  e["name"] is a
\* KeyError for an entry that began without a "worktree " line.
WorktreeEntries(repo) ==
    SelectSeq(ParsedEntries(repo),
              LAMBDA e : IsDir(JoinPath(sync_root, PathOf(DictGet(e, <<"name">>)))))

\* discover_worktree_map raises KeyError: a base repository has an entry
\* without a name.
DiscoveryRaises ==
    \E i \in 1..Len(BASE_SYNC_DIRS) :
        /\ is_git_repo(JoinPath(sync_root, PathOf(BASE_SYNC_DIRS[i])))
        /\ LET entries == ParsedEntries(BASE_SYNC_DIRS[i])
           IN  \E j \in 1..Len(entries) : ~DictHas(entries[j], <<"name">>)

RECURSIVE WorktreeMapOf(_)
WorktreeMapOf(repos) ==
    IF repos = <<>> THEN <<>>
    ELSE LET repo == Head(repos)
             rest == WorktreeMapOf(Tail(repos))
         IN  IF ~is_git_repo(JoinPath(sync_root, PathOf(repo))) THEN rest
             ELSE IF WorktreeEntries(repo) = <<>> THEN rest
             ELSE << <<repo, WorktreeEntries(repo)>> >> \o rest

discover_worktree_map == WorktreeMapOf(BASE_SYNC_DIRS)

\* The names appended by the two nested loops of sync_dirs.
RECURSIVE WorktreeNames(_)
WorktreeNames(wt_map) ==
    IF wt_map = <<>> THEN <<>>
    ELSE LET names == [i \in 1..Len(Head(wt_map)[2]) |-> DictGet(Head(wt_map)[2][i], <<"name">>)]
         IN  SelectSeq(names, LAMBDA n : \A i \in 1..Len(BASE_SYNC_DIRS) : BASE_SYNC_DIRS[i] # n)
             \o WorktreeNames(Tail(wt_map))

sync_dirs ==
    BASE_SYNC_DIRS
    \o WorktreeNames(discover_worktree_map)
    \o (IF env_extra # <<>> THEN SplitOn(env_extra, ",") ELSE <<>>)

repo_dirs == SelectSeq(sync_dirs, LAMBDA d : is_git_repo(JoinPath(sync_root, PathOf(d))))

(***************************************************************************)
(* lsync/git_meta.py                                                       *)
(***************************************************************************)
WORKTREE_MAP_FILE == <<"worktrees.json">>
LOG_LIMIT == 200

LOG_FORMAT == <<"--pretty=format:%C(yellow)%h%C(reset) %C(green)%an%C(reset) %C(blue)%ad%C(reset) %s%C(auto)%d%C(reset)">>

\* GIT_COMMANDS, in its insertion order: <<filename, command>>.
GIT_COMMANDS ==
    << << <<"log", ".txt">>,
          << <<"git">>, <<"log">>, <<"--color=always">>, LOG_FORMAT >> >>,
       << <<"log", "_all", ".txt">>,
          << <<"git">>, <<"log">>, <<"--all">>, <<"--graph">>, <<"--color=always">>, LOG_FORMAT >> >>,
       << <<"status", ".txt">>,
          << <<"git">>, <<"-c">>, <<"color.status=always">>, <<"status">> >> >>,
       << <<"branch", ".txt">>,
          << <<"git">>, <<"branch">>, <<"-vv">>, <<"--color=always">> >> >>,
       << <<"diff", "_stat", ".txt">>,
          << <<"git">>, <<"diff">>, <<"--stat">>, <<"--color=always">> >> >>,
       << <<"diff", ".txt">>,
          << <<"git">>, <<"diff">>, <<"--color=always">> >> >> >>

FileNames == { GIT_COMMANDS[i][1] : i \in 1..Len(GIT_COMMANDS) }

\* The command collect_repo runs for one file: the limit is appended when the
\* file name starts with "log".
FullCmd(filename, cmd) ==
    IF filename # <<>> /\ Head(filename) = "log"
    THEN Append(cmd, <<"-", ToString(LOG_LIMIT)>>)
    ELSE cmd

HasArg(cmd, arg) == \E i \in 1..Len(cmd) : cmd[i] = arg

\* What git writes to standard output for a command in a repository, as bytes:
\* the environment of collect_repo.  Revision 0 is a clean repository with one
\* commit; later revisions add commits and an unstaged change to a file with
\* CRLF line ends, which `git diff` prints as it is.
ESC_YELLOW == "\\x1b[33m"
ESC_RESET == "\\x1b[m"
CR == "\r"
LF == "\n"
BYTE_E9 == "\\xe9"       \* a byte of Latin-1 text, not valid UTF-8 on its own

\* The modified file of a repository, when its new content is on the disk of
\* the model: text in Latin-1.
ModifiedFile(repo) == AsPosix(JoinPath(JoinPath(sync_root, PathOf(repo)), PathOf(<<"f">>)))
HasLatin1(repo) ==
    LET f == ModifiedFile(repo)
    IN  f \in DOMAIN files /\ \E i \in 1..Len(files[f]) : files[f][i] = BYTE_E9

GitStdout(repo, cmd) ==
    LET commit(n) == <<ESC_YELLOW, ToString(n), ESC_RESET, " ">> \o repo \o <<LF>>
        graph(n) == <<"* ">> \o commit(n)
        limited == HasArg(cmd, <<"-", ToString(LOG_LIMIT)>>)
    IN  IF HasArg(cmd, <<"log">>) /\ HasArg(cmd, <<"--all">>)
        THEN IF git_rev = 0 THEN graph(0) ELSE graph(git_rev) \o graph(0)
        ELSE IF HasArg(cmd, <<"log">>)
        THEN IF git_rev = 0 THEN commit(0) ELSE commit(git_rev) \o commit(0)
        ELSE IF HasArg(cmd, <<"status">>)
        THEN IF git_rev = 0 THEN <<"nothing to commit", LF>>
             ELSE <<"\\x1b[31m", "modified: f", ESC_RESET, LF>>
        ELSE IF HasArg(cmd, <<"branch">>)
        THEN <<"* ", "\\x1b[32m", "main", ESC_RESET, " ", ToString(git_rev), LF>>
        ELSE IF HasArg(cmd, <<"--stat">>)
        THEN IF git_rev = 0 THEN <<>> ELSE <<" f | 2 ", "\\x1b[32m", "+", ESC_RESET, LF>>
        ELSE IF git_rev = 0 THEN <<>>
        ELSE IF HasLatin1(repo) THEN <<"\\x1b[32m", "+", BYTE_E9, ESC_RESET, LF>>
             ELSE <<"\\x1b[32m", "+", "x", ESC_RESET, CR, LF, "\\x1b[32m", "+", "y", ESC_RESET, CR, LF>>

\* subprocess.run(text=True) and Path.read_text(): universal newlines, "\r\n"
\* and "\r" both become "\n".
RECURSIVE TranslateNewlines(_)
TranslateNewlines(s) ==
    IF s = <<>> THEN <<>>
    ELSE IF Head(s) = CR /\ Len(s) > 1 /\ s[2] = LF THEN <<LF>> \o TranslateNewlines(Tail(Tail(s)))
    ELSE IF Head(s) = CR THEN <<LF>> \o TranslateNewlines(Tail(s))
    ELSE <<Head(s)>> \o TranslateNewlines(Tail(s))

\* The strict decoder of subprocess.run(text=True) raises UnicodeDecodeError.
Undecodable(bytes) == \E i \in 1..Len(bytes) : bytes[i] = BYTE_E9

\* result.stdout of subprocess.run(full_cmd, cwd=repo_dir, capture_output=True, text=True)
RunStdout(repo, cmd) == TranslateNewlines(GitStdout(repo, cmd))

\* Path.write_text on POSIX stores the text as it is.
WriteText(text) == text

\* Path.read_text
ReadText(content) == TranslateNewlines(content)

MetaFile(repo, filename) == JoinPath(JoinPath(git_meta_dir, PathOf(repo)), PathOf(filename))

\* ---- json.dumps / json.loads of the worktree map, on tokens
Punct(c) == [t |-> "p", v |-> <<c>>]

JsonEscapeChar(c) ==
    IF c = "\"" THEN "\\\"" ELSE IF c = "\\" THEN "\\\\"
    ELSE IF c = "e-acute" THEN "\\u00e9" ELSE c

JsonUnescapeChar(c) ==
    IF c = "\\\"" THEN "\"" ELSE IF c = "\\\\" THEN "\\"
    ELSE IF c = "\\u00e9" THEN "e-acute" ELSE c

JsonString(s) == [t |-> "s", v |-> [i \in 1..Len(s) |-> JsonEscapeChar(s[i])]]

RECURSIVE DumpEntry(_)
DumpEntry(e) ==
    IF e = <<>> THEN <<>>
    ELSE <<JsonString(Head(e)[1]), Punct(":"), JsonString(Head(e)[2])>>
         \o (IF Len(e) > 1 THEN <<Punct(",")>> ELSE <<>>) \o DumpEntry(Tail(e))

RECURSIVE DumpEntries(_)
DumpEntries(es) ==
    IF es = <<>> THEN <<>>
    ELSE <<Punct("{")>> \o DumpEntry(Head(es)) \o <<Punct("}")>>
         \o (IF Len(es) > 1 THEN <<Punct(",")>> ELSE <<>>) \o DumpEntries(Tail(es))

RECURSIVE DumpMap(_)
DumpMap(m) ==
    IF m = <<>> THEN <<>>
    ELSE <<JsonString(Head(m)[1]), Punct(":"), Punct("[")>> \o DumpEntries(Head(m)[2]) \o <<Punct("]")>>
         \o (IF Len(m) > 1 THEN <<Punct(",")>> ELSE <<>>) \o DumpMap(Tail(m))

\* json.dumps(wt_map, indent=2) + "\n"
JsonDumps(m) == <<Punct("{")>> \o DumpMap(m) \o <<Punct("}"), Punct(LF)>>

\* json.loads: the value at the head of the tokens and the tokens after it.
RECURSIVE ParseValue(_)
RECURSIVE ParseMembers(_, _)
RECURSIVE ParseElems(_, _)
ParseValue(toks) ==
    IF Head(toks).t = "s"
    THEN << [i \in 1..Len(Head(toks).v) |-> JsonUnescapeChar(Head(toks).v[i])], Tail(toks) >>
    ELSE IF Head(toks) = Punct("{") THEN ParseMembers(Tail(toks), <<>>)
    ELSE ParseElems(Tail(toks), <<>>)

ParseMembers(toks, acc) ==
    IF Head(toks) = Punct("}") THEN <<acc, Tail(toks)>>
    ELSE IF Head(toks) = Punct(",") THEN ParseMembers(Tail(toks), acc)
    ELSE LET key == ParseValue(toks)
             val == ParseValue(Tail(key[2]))
         IN  ParseMembers(val[2], DictSet(acc, key[1], val[1]))

ParseElems(toks, acc) ==
    IF Head(toks) = Punct("]") THEN <<acc, Tail(toks)>>
    ELSE IF Head(toks) = Punct(",") THEN ParseElems(Tail(toks), acc)
    ELSE LET val == ParseValue(toks)
         IN  ParseElems(val[2], Append(acc, val[1]))

JsonLoads(toks) == ParseValue(toks)[1]

\* ---- GitMetaCollector: the disk is passed along as d = [dirs, files, captured]
RECURSIVE CaptureFilesAppending(_, _, _)
CaptureFilesAppending(d, repo, cmds) ==
    IF cmds = <<>> THEN d
    ELSE LET filename == Head(cmds)[1]
             full_cmd == FullCmd(filename, Head(cmds)[2])
             path     == AsPosix(MetaFile(repo, filename))
             old      == IF path \in DOMAIN d.files THEN d.files[path] ELSE <<>>
         IN  CaptureFilesAppending(
                 [dirs     |-> d.dirs,
                  files    |-> (path :> (old \o WriteText(RunStdout(repo, full_cmd)))) @@ d.files,
                  captured |-> (<<repo, filename>> :> GitStdout(repo, full_cmd)) @@ d.captured],
                 repo, Tail(cmds))

\* One iteration of the loop of collect_repo over GIT_COMMANDS; the loop ends
\* at a command whose output subprocess.run cannot decode.
RECURSIVE CaptureFiles(_, _, _)
CaptureFiles(d, repo, cmds) ==
    IF cmds = <<>> THEN d
    ELSE LET filename == Head(cmds)[1]
             full_cmd == FullCmd(filename, Head(cmds)[2])
             path     == AsPosix(MetaFile(repo, filename))
         IN  IF Undecodable(GitStdout(repo, full_cmd)) THEN d ELSE
             CaptureFiles(
                 [dirs     |-> d.dirs,
                  files    |-> (path :> WriteText(RunStdout(repo, full_cmd))) @@ d.files,
                  captured |-> (<<repo, filename>> :> GitStdout(repo, full_cmd)) @@ d.captured],
                 repo, Tail(cmds))

collect_repo(d, repo_name) ==
    IF ~is_git_repo(JoinPath(sync_root, PathOf(repo_name))) THEN d
    ELSE CaptureFiles(
             [dirs     |-> d.dirs \cup {AsPosix(git_meta_dir),
                                        AsPosix(JoinPath(git_meta_dir, PathOf(repo_name)))},
              files    |-> d.files,
              captured |-> d.captured],
             repo_name, GIT_COMMANDS)

write_worktree_map(d) ==
    LET wt_map == discover_worktree_map
    IN  IF wt_map = <<>> THEN d
        ELSE [dirs     |-> d.dirs \cup {AsPosix(git_meta_dir)},
              files    |-> (AsPosix(JoinPath(git_meta_dir, PathOf(WORKTREE_MAP_FILE)))
                               :> JsonDumps(wt_map)) @@ d.files,
              captured |-> d.captured]

\* collect_repo raises UnicodeDecodeError for the repository.
RepoRaises(repo) ==
    \E i \in 1..Len(GIT_COMMANDS) :
        Undecodable(GitStdout(repo, FullCmd(GIT_COMMANDS[i][1], GIT_COMMANDS[i][2])))

CaptureRaises ==
    LET repos == repo_dirs
    IN  \E i \in 1..Len(repos) : RepoRaises(repos[i])

\* The loop of collect_all, which an exception of collect_repo ends.
RECURSIVE CollectRepos(_, _)
CollectRepos(d, repos) ==
    IF repos = <<>> THEN d
    ELSE IF RepoRaises(Head(repos)) THEN collect_repo(d, Head(repos))
    ELSE CollectRepos(collect_repo(d, Head(repos)), Tail(repos))

\* The disk after collect_all.  The tree is read as it is when collect_all
\* starts: what collect_all creates lies under git_meta_dir, which is neither a
\* synchronized directory nor a worktree in the configurations of the model.
collect_all ==
    LET d == CollectRepos([dirs |-> dirs, files |-> files, captured |-> <<>>], repo_dirs)
    IN  IF CaptureRaises THEN d ELSE write_worktree_map(d)

\* ---- GitMetaReader
list_repos ==
    IF ~IsDir(git_meta_dir) THEN {}
    ELSE { r \in { Name(PathOf(x)) : x \in dirs } :
             /\ AsPosix(JoinPath(git_meta_dir, PathOf(r))) \in dirs
             /\ Exists(MetaFile(r, <<"log", ".txt">>)) }

read_worktree_map ==
    LET wt_file == JoinPath(git_meta_dir, PathOf(WORKTREE_MAP_FILE))
    IN  IF ~Exists(wt_file) THEN <<>> ELSE JsonLoads(files[AsPosix(wt_file)])

\* read_file raises FileNotFoundError when the file is absent.
read_file_or_empty(repo, filename) ==
    IF ~Exists(MetaFile(repo, filename)) THEN <<>>
    ELSE ReadText(files[AsPosix(MetaFile(repo, filename))])

read_file(repo, filename) ==
    IF ~Exists(MetaFile(repo, filename)) THEN None
    ELSE ReadText(files[AsPosix(MetaFile(repo, filename))])

(***************************************************************************)
(* lsync/sync.py                                                           *)
(***************************************************************************)
RSYNCIGNORE == <<"/", "site-packages", "/", "my_toolbox", "/", "lsync", "/", ".lsyncignore">>

\* NDA_DIRS as the module computes it from LSYNC_NDA_DIRS.
NdaDirsOf(e) == IF e # <<>> THEN SplitOn(e, ",") ELSE <<>>

Hosts(n) == SubSeq(<< <<"h1">>, <<"h2">>, <<"h3">>, <<"h4">> >>, 1, n)

\* The configuration file (yaml): server -> hosts and base_dir.  "prod" lists
\* its hosts; "prod-nda" names one host as a plain string and writes its
\* base_dir with a trailing separator.
config_dict ==
    << << <<"prod">>,
          [hosts |-> [list |-> TRUE, val |-> Hosts(MaxHosts)],
           base_dir |-> <<"/", "srv">>] >>,
       << <<"prod", "-nda">>,
          [hosts |-> [list |-> FALSE, val |-> <<"h9">>],
           base_dir |-> <<"/", "data", "/", "nda", "/">>] >> >>

\* self.hosts after __post_init__
HostList(h) == IF h.list THEN h.val ELSE << h.val >>

LocalDir(file_or_path) ==
    IF file_or_path = None THEN sync_root ELSE JoinPath(cwd, PathOf(file_or_path))

RemoteDirFlat(base_dir, file_or_path) ==
    JoinPath(PathOf(base_dir), PathOf(Name(LocalDir(file_or_path))))

RemoteDir(base_dir, file_or_path) ==
    IF file_or_path = None
    THEN JoinPath(PathOf(base_dir), PathOf(Name(LocalDir(file_or_path))))
    ELSE JoinPath(PathOf(base_dir), RelativeTo(LocalDir(file_or_path), Parent(sync_root)))

probe_gitignore(local_dir) ==
    LET gitignore_file == JoinPath(local_dir, PathOf(<<".gitignore">>))
    IN  IF Exists(gitignore_file) THEN AsPosix(gitignore_file) ELSE None

Truthy(s) == s # None /\ s # <<>>

RsyncOptionsGitFlipped(delete, git_repo, git_ignore) ==
    << <<"rsync">>,
       <<"-ah">>,
       IF delete THEN <<"--delete">> ELSE <<>>,
       <<"--info=progress2">>,
       IF Truthy(git_ignore) THEN <<"--exclude-from=">> \o git_ignore ELSE <<>>,
       <<"--exclude-from=">> \o RSYNCIGNORE,
       IF git_repo THEN <<"--exclude=.git">> ELSE <<>> >>

RsyncOptions(delete, git_repo, git_ignore) ==
    << <<"rsync">>,
       <<"-ah">>,
       IF delete THEN <<"--delete">> ELSE <<>>,
       <<"--info=progress2">>,
       IF Truthy(git_ignore) THEN <<"--exclude-from=">> \o git_ignore ELSE <<>>,
       <<"--exclude-from=">> \o RSYNCIGNORE,
       IF ~git_repo THEN <<"--exclude=.git">> ELSE <<>> >>

\* [src_dir / d for d in names if (src_dir / d).exists()]
ExistingUnder(src_dir, names) ==
    SelectSeq([i \in 1..Len(names) |-> JoinPath(src_dir, PathOf(names[i]))], Exists)

NdaSources(server, src_dir) ==
    IF EndsWith(server, <<"-nda">>) THEN ExistingUnder(src_dir, NDA_DIRS) ELSE <<>>

GitMetaSourcesIfMapped ==
    IF Exists(JoinPath(git_meta_dir, PathOf(WORKTREE_MAP_FILE))) THEN <<git_meta_dir>> ELSE <<>>

GitMetaSources == IF IsDir(git_meta_dir) THEN <<git_meta_dir>> ELSE <<>>

sync_command(server, remote_dir, local_dir, delete, git_repo, git_ignore) ==
    LET src_dir  == PathOf(local_dir)
        dst_dir  == PathOf(remote_dir)
        src_dirs == ExistingUnder(src_dir, sync_dirs)
                    \o NdaSources(server, src_dir)
                    \o GitMetaSources
        src_dirs_str == [i \in 1..Len(src_dirs) |-> RStrip(AsPosix(src_dirs[i]), SEP)]
        dst_dir_str  == RStrip(AsPosix(dst_dir), SEP)
    IN  SelectSeq(RsyncOptions(delete, git_repo, git_ignore) \o src_dirs_str \o <<dst_dir_str>>,
                  LAMBDA cmd : cmd # <<>>)

\* ---- the sync command
NoTool == [server |-> <<>>]
NoLoop == [at |-> "outside", i |-> 0]
NoResult == [op |-> "none"]

\* raise typer.Exit(f"Invalid server(cluster) name: {server}"): the exception
\* carries the message as its exit code.
InvalidServer(server) == [t |-> "str", v |-> <<"Invalid server(cluster) name: ">> \o server]

ExitStatusOfTruthiness(code) ==
    IF code.t = "none" THEN 0 ELSE IF code.t = "int" THEN code.v ELSE 0

\* sys.exit(code) as the interpreter turns it into the exit status of the
\* process: None is 0, an integer is itself, anything else is printed to
\* standard error and the status is 1.  A code is [t |-> "none"],
\* [t |-> "int", v |-> n] or [t |-> "str", v |-> s].
ExitStatus(code) ==
    IF code.t = "none" THEN 0 ELSE IF code.t = "int" THEN code.v ELSE 1

\* An exception that nothing catches: traceback, exit status 1.
UncaughtException == 1

(***************************************************************************)
(* lsync/sync_log.py: a line of ~/.lsync.log is the JSON object of a       *)
(* LogItem; the model keeps its fields.                                    *)
(***************************************************************************)
LogItem(now_str, path, hosts, delete, git_repo) ==
    [now_str |-> now_str, path |-> path, hosts |-> hosts,
     delete |-> delete, git_repo |-> git_repo]

\* The line an earlier invocation left in the log.
PriorLogItem == LogItem(<<"earlier">>, <<"common_sync">>, << <<"h1">> >>, FALSE, FALSE)

\* Logger.log_one: the file is opened in append mode and one line is written.
log_one(lines, path, hosts, delete, git_repo) ==
    Append(lines, LogItem(<<"now">>, AsPosix(path), hosts, delete, git_repo))

\* A reader that returns the oldest line.
read_first_sync_log(lines) == IF lines = <<>> THEN None ELSE lines[1]

\* Logger.read_last_sync_log
read_last_sync_log(lines) == IF lines = <<>> THEN None ELSE lines[Len(lines)]

\* sync(): the server is not a key of the configuration.
SyncUnknownServer(server) ==
    /\ pc = "start"
    /\ ~DictHas(config_dict, server)
    /\ pc' = "failed"
    /\ result' = [op |-> "raise", value |-> InvalidServer(server)]
    /\ exit_code' = ExitStatus(InvalidServer(server))
    /\ UNCHANGED <<tool, rsync_cmds, dirs, files, git_rev, captured, discovered>>
    /\ UNCHANGED envVars /\ UNCHANGED uiVars
    /\ UNCHANGED runVars /\ UNCHANGED collect_runs

\* SyncTool.__init__ raises: no sync root above the working directory.
SyncRootNotFound(server) ==
    /\ pc = "start"
    /\ DictHas(config_dict, server)
    /\ sync_root = NotFound
    /\ pc' = "failed"
    /\ result' = [op |-> "raise", value |-> [t |-> "FileNotFoundError"]]
    /\ exit_code' = UncaughtException
    /\ UNCHANGED <<tool, rsync_cmds, dirs, files, git_rev, captured, discovered>>
    /\ UNCHANGED envVars /\ UNCHANGED uiVars
    /\ UNCHANGED runVars /\ UNCHANGED collect_runs

\* SyncTool.__init__ raises: the given path is not under the parent of the root.
SyncPathOutside(server, file_or_path) ==
    /\ pc = "start"
    /\ DictHas(config_dict, server)
    /\ sync_root # NotFound
    /\ file_or_path # None
    /\ ~IsRelativeTo(LocalDir(file_or_path), Parent(sync_root))
    /\ pc' = "failed"
    /\ result' = [op |-> "raise", value |-> [t |-> "ValueError"]]
    /\ exit_code' = UncaughtException
    /\ UNCHANGED <<tool, rsync_cmds, dirs, files, git_rev, captured, discovered>>
    /\ UNCHANGED envVars /\ UNCHANGED uiVars
    /\ UNCHANGED runVars /\ UNCHANGED collect_runs

\* sync() up to sync_tool.sync(): SyncTool.__init__ succeeds.
SyncConstruct(server, file_or_path, delete, git_repo) ==
    /\ pc = "start"
    /\ DictHas(config_dict, server)
    /\ sync_root # NotFound
    /\ file_or_path # None => IsRelativeTo(LocalDir(file_or_path), Parent(sync_root))
    /\ tool' = [server       |-> server,
                hosts        |-> HostList(DictGet(config_dict, server).hosts),
                file_or_path |-> file_or_path,
                local_dir    |-> LocalDir(file_or_path),
                remote_dir   |-> RemoteDir(DictGet(config_dict, server).base_dir, file_or_path),
                delete       |-> delete,
                git_repo     |-> git_repo,
                git_ignore   |-> probe_gitignore(LocalDir(file_or_path))]
    /\ pc' = "collect"
    /\ UNCHANGED <<rsync_cmds, dirs, files, git_rev, captured, discovered>>
    /\ UNCHANGED envVars /\ UNCHANGED uiVars
    /\ UNCHANGED runVars /\ UNCHANGED outVars

\* SyncTool.sync(): GitMetaCollector(self.tree).collect_all()
SyncCollect ==
    /\ pc = "collect"
    /\ ~DiscoveryRaises /\ ~CaptureRaises
    /\ LET d == collect_all
       IN  dirs' = d.dirs /\ files' = d.files /\ captured' = d.captured
    /\ discovered' = discover_worktree_map
    /\ pc' = "plan"
    /\ collect_runs' = collect_runs + 1
    /\ UNCHANGED <<tool, rsync_cmds, git_rev>>
    /\ UNCHANGED envVars /\ UNCHANGED uiVars
    /\ UNCHANGED runVars /\ UNCHANGED <<result, exit_code>>

\* SyncTool.sync(): one iteration of the loop over self.hosts.
SyncPlanHost ==
    /\ pc = "plan"
    /\ Len(rsync_cmds) < Len(tool.hosts)
    /\ LET host      == tool.hosts[Len(rsync_cmds) + 1]
           is_folder == IF IsDir(tool.local_dir) THEN <<SEP>> ELSE <<>>
       IN  rsync_cmds' = Append(rsync_cmds,
               sync_command(tool.server,
                            host \o <<":">> \o AsPosix(tool.remote_dir) \o is_folder,
                            AsPosix(tool.local_dir) \o is_folder,
                            tool.delete, tool.git_repo,
                            probe_gitignore(tool.local_dir)))
    /\ UNCHANGED <<pc, tool, dirs, files, git_rev, captured, discovered>>
    /\ UNCHANGED envVars /\ UNCHANGED uiVars
    /\ UNCHANGED runVars /\ UNCHANGED outVars

(***************************************************************************)
(* ui.py: the terminal, CursorTool and UITool                              *)
(***************************************************************************)
HEADER_WIDTH == 40
TermRows == MaxLines + 4                \* the canvas fits on the screen
TermCols == HEADER_WIDTH + MaxCol + 2

Min(a, b) == IF a < b THEN a ELSE b
Max(a, b) == IF a > b THEN a ELSE b

ESC_BOLD == "\\x1b[1m"
ESC_OFF == "\\x1b[0m"
ESC_RED_BLOCK == "\\x1b[41m"
ESC_RED == "\\x1b[31m"
ESC_GREEN == "\\x1b[32m"
ESC_DIM == "\\x1b[2m"
Escapes == {ESC_BOLD, ESC_OFF, ESC_RED_BLOCK, ESC_RED, ESC_GREEN, ESC_DIM}

\* len() of a token and the columns the terminal advances when it is printed.
TokLen(tok) ==
    IF tok \in {ESC_BOLD, ESC_OFF, ESC_DIM} THEN 4
    ELSE IF tok \in {ESC_RED_BLOCK, ESC_RED, ESC_GREEN} THEN 5 ELSE 1
TokWidth(tok) == IF tok \in Escapes THEN 0 ELSE 1

RECURSIVE StrLen(_)
StrLen(content) == IF content = <<>> THEN 0 ELSE TokLen(Head(content)) + StrLen(Tail(content))

Repeat(tok, n) == [i \in 1..n |-> tok]

bold(x) == <<ESC_BOLD>> \o x \o <<ESC_OFF>>
red_block(x) == <<ESC_RED_BLOCK>> \o x \o <<ESC_OFF>>
red_text(x) == <<ESC_RED>> \o x \o <<ESC_OFF>>
green_text(x) == <<ESC_GREEN>> \o x \o <<ESC_OFF>>
dim(x) == <<ESC_DIM>> \o x \o <<ESC_OFF>>

section_header(title) ==
    LET prefix == <<"=", "=", " ">> \o title \o <<" ">>
        fill   == Repeat("=", Max(0, HEADER_WIDTH - StrLen(prefix)))
    IN  bold(prefix \o fill)

\* ---- CursorTool: what the terminal does with each escape code
move_up(t, n) == [t EXCEPT !.row = Max(0, t.row - n)]
move_down(t, n) == [t EXCEPT !.row = Min(TermRows - 1, t.row + n)]
move_right(t, n) == [t EXCEPT !.col = Min(TermCols - 1, t.col + n)]
move_left_unclamped(t, n) == [t EXCEPT !.col = t.col - n]

move_left(t, n) == [t EXCEPT !.col = Max(0, t.col - n)]

move_vertical(t, n) == IF n > 0 THEN move_down(t, n) ELSE IF n < 0 THEN move_up(t, -n) ELSE t
move_horizontal(t, n) == IF n > 0 THEN move_right(t, n) ELSE IF n < 0 THEN move_left(t, -n) ELSE t

hide_cursor(t) == [t EXCEPT !.visible = FALSE]
show_cursor(t) == [t EXCEPT !.visible = TRUE]

\* print(tok, end="") of one token at the cursor.  A row of the screen is kept
\* up to its rightmost written cell; cells never written are blank.
TermPut(t, tok) ==
    IF TokWidth(tok) = 0 THEN t
    ELSE LET r      == t.cells[t.row]
             padded == IF Len(r) < t.col THEN r \o [i \in 1..(t.col - Len(r)) |-> " "] ELSE r
             row2   == IF t.col < Len(padded) THEN [padded EXCEPT ![t.col + 1] = tok]
                       ELSE Append(padded, tok)
         IN  [t EXCEPT !.cells[t.row] = row2, !.col = Min(TermCols - 1, t.col + 1)]

\* print(content, end=""): TermPut of each token in turn, written out for a
\* whole string.  Token j lands on column Min(TermCols - 1, t.col + j - 1).
TermWrite(t, content) ==
    LET vis   == SelectSeq(content, LAMBDA tok : TokWidth(tok) # 0)
        n     == Len(vis)
        r     == t.cells[t.row]
        last  == Min(TermCols - 1, t.col + n - 1)
        At(x) == IF x < t.col \/ x > last
                 THEN (IF x < Len(r) THEN r[x + 1] ELSE " ")
                 ELSE IF x < TermCols - 1 THEN vis[x - t.col + 1] ELSE vis[n]
    IN  IF n = 0 THEN t
        ELSE [t EXCEPT !.cells[t.row] = [x \in 1..Max(Len(r), last + 1) |-> At(x - 1)],
                       !.col = Min(TermCols - 1, t.col + n)]

\* A line feed: the cursor goes to the start of the next row; on the last row
\* the screen scrolls up by one row instead.
TermNewline(t) ==
    IF t.row < TermRows - 1 THEN [t EXCEPT !.row = t.row + 1, !.col = 0]
    ELSE [t EXCEPT !.col = 0,
                   !.cells = [y \in 0..(TermRows - 1) |->
                                 IF y < TermRows - 1 THEN t.cells[y + 1] ELSE <<>>]]

\* ---- UITool on c = [ui |-> the object, term |-> the terminal]
NoInt == -1     \* an Optional[int] argument left as None

move_cursor(c, line, col) ==
    LET c1 == IF line # NoInt
              THEN [ui   |-> [c.ui EXCEPT !.cur_line = line],
                    term |-> move_vertical(c.term, line - c.ui.cur_line)]
              ELSE c
    IN  IF col # NoInt
        THEN [ui   |-> [c1.ui EXCEPT !.cur_col = col],
              term |-> move_horizontal(c1.term, col - c1.ui.cur_col)]
        ELSE c1

reset_pos(c) == move_cursor(c, c.ui.max_lines, 0)

print_char(c, char) ==
    [ui |-> [c.ui EXCEPT !.cur_col = c.ui.cur_col + 1], term |-> TermPut(c.term, char)]

print_line(c, content) ==
    [ui   |-> [c.ui EXCEPT !.cur_col = c.ui.cur_col + StrLen(content)],
     term |-> TermWrite(c.term, content)]

\* update_char that keeps the column of a line at a line break.
update_char_keeping_column(c, line, char) ==
    IF char \in {LF, CR}
    THEN reset_pos(c)
    ELSE LET c1 == move_cursor(c, line, c.ui.line_pos[line + 1])
             c2 == print_char(c1, char)
         IN  reset_pos([c2 EXCEPT !.ui.line_pos[line + 1] = c2.ui.cur_col])

\* line_pos is indexed from 0 in the code and from 1 here.
update_char(c, line, char) ==
    IF char \in {LF, CR}
    THEN reset_pos([c EXCEPT !.ui.line_pos[line + 1] = 0])
    ELSE LET c1 == move_cursor(c, line, c.ui.line_pos[line + 1])
             c2 == print_char(c1, char)
         IN  reset_pos([c2 EXCEPT !.ui.line_pos[line + 1] = c2.ui.cur_col])

update_line(c, line, content) ==
    reset_pos(print_line(move_cursor(c, line, 0), content))

print_desc(c, desc) == update_line(c, c.ui.max_lines, section_header(desc))

\* UITool.__init__: line_pos is set after the first reset_pos.
UIToolInit(t, max_lines) ==
    LET c0 == reset_pos([ui   |-> [max_lines |-> max_lines, cur_line |-> 0,
                                   cur_col |-> 0, line_pos |-> <<>>],
                         term |-> t])
    IN  [c0 EXCEPT !.ui.line_pos = Repeat(0, max_lines)]

\* The finally clause of ui_tool.
Finally(t) == TermNewline(show_cursor(t))

ScopeExitNoFinally(t, raised) == IF raised THEN t ELSE Finally(t)

\* Leaving the scope of ui_tool, with or without an exception in flight.
ScopeExit(t, raised) == Finally(t)

NoUi == [max_lines |-> 0]
TermInit == [row |-> 0, col |-> 0, visible |-> TRUE,
             cells |-> [y \in 0..(TermRows - 1) |-> <<>>]]

Chars == {"a", "b", CR, LF}

\* with UITool.ui_tool(max_lines, desc): CursorTool.hide_cursor()
UiEnter(max_lines) ==
    /\ ui_pc = "outside"
    /\ term' = hide_cursor(term)
    /\ ui' = [max_lines |-> max_lines]
    /\ ui_pc' = "entered"
    /\ UNCHANGED <<sent, dirs, files, git_rev, captured, discovered>>
    /\ UNCHANGED envVars /\ UNCHANGED syncVars
    /\ UNCHANGED runVars /\ UNCHANGED outVars

\* tool = UITool(max_lines); tool.print_desc(desc); yield tool
UiConstruct ==
    /\ ui_pc = "entered"
    /\ LET c == print_desc(UIToolInit(term, ui.max_lines), <<"R", "s", "y", "n", "c">>)
       IN  ui' = c.ui /\ term' = c.term
    /\ sent' = Repeat(<<>>, ui.max_lines)
    /\ ui_pc' = "yielded"
    /\ UNCHANGED <<dirs, files, git_rev, captured, discovered>>
    /\ UNCHANGED envVars /\ UNCHANGED syncVars
    /\ UNCHANGED runVars /\ UNCHANGED outVars

\* An exception inside the try block before the yield: construction fails, the
\* handler prints it, the finally clause runs and __enter__ raises.
UiConstructRaises ==
    /\ ui_pc = "entered"
    /\ term' = ScopeExit(term, TRUE)
    /\ ui_pc' = "failed"
    /\ UNCHANGED <<ui, sent, dirs, files, git_rev, captured, discovered>>
    /\ UNCHANGED envVars /\ UNCHANGED syncVars
    /\ UNCHANGED runVars /\ UNCHANGED outVars

\* ui_tool.update_char(line, char) in the body of the with statement
UiUpdateChar(line, char) ==
    /\ ui_pc = "yielded"
    /\ char \notin {LF, CR} => ui.line_pos[line + 1] < MaxCol
    /\ LET c == update_char([ui |-> ui, term |-> term], line, char)
       IN  ui' = c.ui /\ term' = c.term
    /\ sent' = [sent EXCEPT ![line + 1] = IF char \in {LF, CR} THEN <<>> ELSE Append(@, char)]
    /\ UNCHANGED <<ui_pc, dirs, files, git_rev, captured, discovered>>
    /\ UNCHANGED envVars /\ UNCHANGED syncVars
    /\ UNCHANGED runVars /\ UNCHANGED outVars

\* The body of the with statement raises: the handler prints the exception,
\* the finally clause runs and the with statement ends.
UiBodyRaises ==
    /\ ui_pc = "yielded"
    /\ term' = ScopeExit(term, TRUE)
    /\ ui_pc' = "swallowed"
    /\ UNCHANGED <<ui, sent, dirs, files, git_rev, captured, discovered>>
    /\ UNCHANGED envVars /\ UNCHANGED syncVars
    /\ UNCHANGED runVars /\ UNCHANGED outVars

\* The body of the with statement ends.
UiBodyEnds ==
    /\ ui_pc = "yielded"
    /\ term' = ScopeExit(term, FALSE)
    /\ ui_pc' = "exited"
    /\ UNCHANGED <<ui, sent, dirs, files, git_rev, captured, discovered>>
    /\ UNCHANGED envVars /\ UNCHANGED syncVars
    /\ UNCHANGED runVars /\ UNCHANGED outVars

(***************************************************************************)
(* The environment of an invocation: working directory, disk, variables.   *)
(***************************************************************************)
HomeU == <<"/", "home", "/", "u">>
RootStr == HomeU \o <<"/", "common_sync">>
Under(base, name) == base \o <<"/">> \o name

BaseDirs ==
    { <<"/">>, <<"/", "home">>, HomeU, RootStr,
      Under(RootStr, <<"scripts">>), Under(RootStr, <<"sglang">>),
      Under(Under(RootStr, <<"sglang">>), <<"scripts">>) }

BaseFiles == Under(Under(RootStr, <<"sglang">>), <<"a.py">>) :> <<>>

LegalDir == Under(RootStr, <<"legal">>)
Wt1Dir == Under(RootStr, <<"wt1">>)
CacheDir == Under(RootStr, GIT_META_DIR_NAME)
SglangGit == Under(Under(RootStr, <<"sglang">>), <<".git">>)
Wt1Git == Under(Wt1Dir, <<".git">>)

\* `git worktree list --porcelain` in sglang: the main worktree alone; with the
\* worktree wt1; with a worktree checked out at legal and one whose directory
\* is gone; nothing at all (git failed).
HeadLine(c) == <<"HEAD ", c, "1", "2", "3", "4", "5", "6", "7", "8">>
WtMain ==
    << <<"worktree ">> \o Under(RootStr, <<"sglang">>), HeadLine("a"),
       <<"branch ", "refs/heads/", "main">>, <<>> >>
WtOne ==
    WtMain \o << <<"worktree ">> \o Wt1Dir, HeadLine("b"),
                 <<"branch ", "refs/heads/", "feat", "e-acute">>, <<>> >>
WtLegal ==
    WtMain \o << <<"worktree ">> \o LegalDir, HeadLine("c"), <<"detached">>, <<>>,
                 <<"worktree ">> \o Under(RootStr, <<"gone">>), HeadLine("d"),
                 <<"branch ", "refs/heads/", "old">>, <<>> >>
\* With the worktree wt1 and a second worktree that lies outside the sync
\* root, in a directory of the same name.
WtElsewhere ==
    WtOne \o << <<"worktree ">> \o <<"/", "tmp", "/", "wt1">>, HeadLine("e"),
                <<"branch ", "refs/heads/", "tmp">>, <<>> >>
\* git fails and prints nothing, and git prints a list that does not begin
\* with a "worktree " line.
WtNothing == <<>>
WtHeadless == << HeadLine("f"), <<"branch ", "refs/heads/", "main">>, <<>> >>
WorktreeOutputs == {WtMain, WtOne, WtLegal, WtElsewhere, WtNothing, WtHeadless}

GitWorktrees(out) ==
    [repo \in {BASE_SYNC_DIRS[i] : i \in 1..Len(BASE_SYNC_DIRS)} |->
        IF repo = <<"sglang">> THEN out ELSE <<>>]

IgnoreFiles(at) == Under(at, <<".gitignore">>) :> <<>>

(***************************************************************************)
(* lsync/sync.py and lsync/utils.py: the run after the plan.  The transfer *)
(* processes and their watcher threads run beside the main thread.         *)
(***************************************************************************)
\* str(list) of the host list
ListRepr(hosts) ==
    <<"[">> \o JoinWith([i \in 1..Len(hosts) |-> <<"'">> \o hosts[i] \o <<"'">>], ", ") \o <<"]">>

\* CursorTool.clear_screen(): erase, cursor home, and the newline print adds.
clear_screen(t) == TermNewline([TermInit EXCEPT !.visible = t.visible])

\* typer.echo(content)
echo(t, content) == TermNewline(TermWrite(t, content))

\* SyncTool.sync(): input() returns, the user has pressed Enter; the screen is
\* cleared and the header of the run is printed.
SyncConfirm ==
    /\ pc = "plan"
    /\ Len(rsync_cmds) = Len(tool.hosts)
    /\ LET relative_path == RelativeTo(tool.local_dir, Parent(sync_root))
       IN  term' = echo(clear_screen(term),
                        section_header(<<"Syncing ">> \o AsPosix(relative_path)
                                       \o <<" -> ">> \o ListRepr(tool.hosts)))
    /\ pc' = "confirmed"
    /\ UNCHANGED <<tool, rsync_cmds, dirs, files, git_rev, captured, discovered>>
    /\ UNCHANGED envVars /\ UNCHANGED <<ui_pc, ui, sent>>
    /\ UNCHANGED runVars /\ UNCHANGED outVars

\* SyncTool.sync(): input() raises EOFError, standard input ended before the
\* user pressed Enter.  Nothing catches it.
SyncConfirmEOF ==
    /\ pc = "plan"
    /\ Len(rsync_cmds) = Len(tool.hosts)
    /\ pc' = "failed"
    /\ result' = [op |-> "raise", value |-> [t |-> "EOFError"]]
    /\ exit_code' = UncaughtException
    /\ UNCHANGED <<tool, rsync_cmds, dirs, files, git_rev, captured, discovered>>
    /\ UNCHANGED envVars /\ UNCHANGED uiVars
    /\ UNCHANGED runVars /\ UNCHANGED collect_runs

\* What a transfer writes to its standard output, and to its standard error
\* when it fails.
RsyncOutput == <<"a", CR>>
RsyncStderr == <<"rsync error">>
ExitCodes == {0, 23}

\* subprocess.Popen(command, stdout=PIPE, stderr=PIPE, text=True) and the
\* watcher thread started on it.  todo is what the process has still to write,
\* pipe what it has written and nobody has read, read what the main thread
\* has read from it; returncode is NoInt while it runs.
popen_with_error_check(command) ==
    [cmd |-> command, todo |-> RsyncOutput, pipe |-> <<>>, read |-> <<>>,
     returncode |-> NoInt, stderr |-> <<>>, errtodo |-> <<>>,
     watcher |-> "waiting", report |-> <<>>]

SyncSpawnUnconfirmed ==
    /\ pc \in {"plan", "confirmed"}
    /\ Len(procs) < Len(rsync_cmds)
    /\ procs' = Append(procs, popen_with_error_check(rsync_cmds[Len(procs) + 1]))
    /\ UNCHANGED <<loop, calls, log>>
    /\ UNCHANGED <<dirs, files, git_rev, captured, discovered>>
    /\ UNCHANGED envVars /\ UNCHANGED syncVars /\ UNCHANGED uiVars
    /\ UNCHANGED outVars

\* SyncTool.sync(): one iteration of the loop over rsync_cmds.
SyncSpawn ==
    /\ pc = "confirmed"
    /\ Len(procs) < Len(rsync_cmds)
    /\ procs' = Append(procs, popen_with_error_check(rsync_cmds[Len(procs) + 1]))
    /\ UNCHANGED <<loop, calls, log>>
    /\ UNCHANGED <<dirs, files, git_rev, captured, discovered>>
    /\ UNCHANGED envVars /\ UNCHANGED syncVars /\ UNCHANGED uiVars
    /\ UNCHANGED outVars

\* Popen raises (the rsync executable cannot be started): nothing catches it,
\* the transfers already started go on.
SyncSpawnRaises ==
    /\ pc = "confirmed"
    /\ Len(procs) < Len(rsync_cmds)
    /\ pc' = "failed"
    /\ result' = [op |-> "raise", value |-> [t |-> "OSError"]]
    /\ exit_code' = UncaughtException
    /\ UNCHANGED <<tool, rsync_cmds, dirs, files, git_rev, captured, discovered>>
    /\ UNCHANGED envVars /\ UNCHANGED uiVars
    /\ UNCHANGED runVars /\ UNCHANGED collect_runs

\* enumerate(seq): the pairs (index, element), the index counted from 0.
EnumerateFromOne(seq) == [k \in 1..Len(seq) |-> <<k, seq[k]>>]

Enumerate(seq) == [k \in 1..Len(seq) |-> <<k - 1, seq[k]>>]

\* all(p.poll() is not None for p in rsync_procs)
AnyPolled(rsync_procs) ==
    \E k \in 1..Len(rsync_procs) : rsync_procs[k].returncode # NoInt

AllPolled(rsync_procs) ==
    \A k \in 1..Len(rsync_procs) : rsync_procs[k].returncode # NoInt

\* _ui_thread: the with statement is entered, the canvas has one line for
\* each process and the description below them.
UiThreadEnter ==
    /\ pc = "confirmed"
    /\ Len(procs) = Len(rsync_cmds)
    /\ LET c == print_desc(UIToolInit(hide_cursor(term), Len(procs)),
                           <<"R", "s", "y", "n", "c">>)
       IN  ui' = c.ui /\ term' = c.term
    /\ sent' = Repeat(<<>>, Len(procs))
    /\ ui_pc' = "yielded"
    /\ pc' = "running"
    /\ loop' = [at |-> "check", i |-> 0]
    /\ UNCHANGED <<procs, calls, log>>
    /\ UNCHANGED <<tool, rsync_cmds, dirs, files, git_rev, captured, discovered>>
    /\ UNCHANGED envVars /\ UNCHANGED outVars

\* _ui_thread: the condition of the while loop.  When it fails the with
\* statement ends and sync() goes on to wait for the processes.
UiThreadCheck ==
    /\ pc = "running"
    /\ loop.at = "check"
    /\ IF AllPolled(procs)
       THEN /\ term' = ScopeExit(term, FALSE)
            /\ ui_pc' = "exited"
            /\ pc' = "waiting"
            /\ loop' = [at |-> "wait", i |-> 1]
       ELSE /\ loop' = [at |-> "read", i |-> 1]
            /\ UNCHANGED <<term, ui_pc, pc>>
    /\ UNCHANGED <<procs, calls, log, ui, sent>>
    /\ UNCHANGED <<tool, rsync_cmds, dirs, files, git_rev, captured, discovered>>
    /\ UNCHANGED envVars /\ UNCHANGED outVars

\* p.stdout.read(1) on the text stream Popen makes with text=True: newlines
\* are universal, so "\r" and "\r\n" are read as "\n", and a "\r" is held
\* back until the character after it, or the end of the stream, is known.
CanRead(p) ==
    \/ p.pipe = <<>> /\ p.returncode # NoInt
    \/ p.pipe # <<>> /\ (Head(p.pipe) = CR => Len(p.pipe) >= 2 \/ p.returncode # NoInt)

ReadOne(pipe) ==
    IF Head(pipe) # CR THEN [char |-> Head(pipe), rest |-> Tail(pipe)]
    ELSE IF Len(pipe) >= 2 /\ pipe[2] = LF THEN [char |-> LF, rest |-> Tail(Tail(pipe))]
    ELSE [char |-> LF, rest |-> Tail(pipe)]

\* _ui_thread: one iteration of the for loop.  p.stdout.read(1) returns the
\* next character of the pipe, waiting for it while the pipe is empty and
\* open, and "" when the pipe is empty and the process has closed it.
UiThreadRead ==
    /\ pc = "running"
    /\ loop.at = "read"
    /\ LET i == Enumerate(procs)[loop.i][1]
           p == Enumerate(procs)[loop.i][2]
       IN  /\ CanRead(p)
           /\ IF p.pipe = <<>>
              THEN /\ loop' = IF loop.i < Len(procs) THEN [loop EXCEPT !.i = @ + 1]
                              ELSE [at |-> "check", i |-> 0]
                   /\ UNCHANGED <<procs, calls, ui, term, sent, ui_pc, pc>>
              ELSE LET char == ReadOne(p.pipe).char
                   IN  /\ procs' = [procs EXCEPT ![loop.i].pipe = ReadOne(p.pipe).rest,
                                                 ![loop.i].read = Append(@, char)]
                       /\ calls' = Append(calls, <<i, char>>)
                       /\ IF 0 <= i /\ i < ui.max_lines
                          THEN /\ LET c == update_char([ui |-> ui, term |-> term], i, char)
                                  IN  ui' = c.ui /\ term' = c.term
                               /\ sent' = [sent EXCEPT ![i + 1] =
                                              IF char \in {LF, CR} THEN <<>>
                                              ELSE Append(@, char)]
                               /\ loop' = IF loop.i < Len(procs)
                                          THEN [loop EXCEPT !.i = @ + 1]
                                          ELSE [at |-> "check", i |-> 0]
                               /\ UNCHANGED <<ui_pc, pc>>
                          ELSE \* the assertion of update_char fails: ui_tool
                               \* prints the exception and the with statement ends
                               /\ term' = ScopeExit(term, TRUE)
                               /\ ui_pc' = "swallowed"
                               /\ pc' = "waiting"
                               /\ loop' = [at |-> "wait", i |-> 1]
                               /\ UNCHANGED <<ui, sent>>
    /\ UNCHANGED log
    /\ UNCHANGED <<tool, rsync_cmds, dirs, files, git_rev, captured, discovered>>
    /\ UNCHANGED envVars /\ UNCHANGED outVars

\* SyncTool.sync(): rsync_proc.wait() returns for the next process.
SyncWait ==
    /\ pc = "waiting"
    /\ loop.i <= Len(procs)
    /\ procs[loop.i].returncode # NoInt
    /\ loop' = [loop EXCEPT !.i = @ + 1]
    /\ UNCHANGED <<procs, calls, log>>
    /\ UNCHANGED <<dirs, files, git_rev, captured, discovered>>
    /\ UNCHANGED envVars /\ UNCHANGED syncVars /\ UNCHANGED uiVars
    /\ UNCHANGED outVars

\* The line sync() prints at its end.
DoneLine(last) ==
    green_text(<<"v">>) \o <<" Done  ">> \o dim(last.now_str) \o <<"  ">> \o last.path
    \o <<" -> ">> \o ListRepr(last.hosts)

\* SyncTool.sync(): logger.log_one(...), the last entry is read back and
\* printed, and the command returns.
SyncLogOne ==
    /\ pc = "waiting"
    /\ loop.i > Len(procs)
    /\ log' = log_one(log, RelativeTo(tool.local_dir, Parent(sync_root)),
                      tool.hosts, tool.delete, tool.git_repo)
    /\ term' = echo(term, DoneLine(read_last_sync_log(log')))
    /\ result' = [op |-> "last", value |-> read_last_sync_log(log')]
    /\ exit_code' = ExitStatus([t |-> "none"])
    /\ pc' = "done"
    /\ loop' = NoLoop
    /\ UNCHANGED <<procs, calls, ui_pc, ui, sent, collect_runs>>
    /\ UNCHANGED <<tool, rsync_cmds, dirs, files, git_rev, captured, discovered>>
    /\ UNCHANGED envVars

\* ---- the transfer processes and their watchers

\* Process k writes the next character of its output to its pipe.
ProcWrite(k) ==
    /\ k \in 1..Len(procs)
    /\ procs[k].returncode = NoInt
    /\ procs[k].todo # <<>>
    /\ Len(procs[k].pipe) < PipeCapacity
    /\ procs' = [procs EXCEPT ![k].todo = Tail(@), ![k].pipe = Append(@, Head(procs[k].todo))]
    /\ UNCHANGED <<loop, calls, log>>
    /\ UNCHANGED <<dirs, files, git_rev, captured, discovered>>
    /\ UNCHANGED envVars /\ UNCHANGED syncVars /\ UNCHANGED uiVars
    /\ UNCHANGED outVars

\* Process k meets errors and has n messages to write to standard error.
ProcError(k, n) ==
    /\ k \in 1..Len(procs)
    /\ procs[k].returncode = NoInt
    /\ procs[k].errtodo = <<>> /\ procs[k].stderr = <<>>
    /\ procs' = [procs EXCEPT ![k].errtodo = [j \in 1..n |-> "rsync warning"]]
    /\ UNCHANGED <<loop, calls, log>>
    /\ UNCHANGED <<dirs, files, git_rev, captured, discovered>>
    /\ UNCHANGED envVars /\ UNCHANGED syncVars /\ UNCHANGED uiVars
    /\ UNCHANGED outVars

\* Process k writes its next message to standard error; the write waits
\* while the pipe, which nothing reads before the process exits, is full.
ProcWriteStderr(k) ==
    /\ k \in 1..Len(procs)
    /\ procs[k].returncode = NoInt
    /\ procs[k].errtodo # <<>>
    /\ Len(procs[k].stderr) < PipeCapacity
    /\ procs' = [procs EXCEPT ![k].errtodo = Tail(@),
                              ![k].stderr = Append(@, Head(procs[k].errtodo))]
    /\ UNCHANGED <<loop, calls, log>>
    /\ UNCHANGED <<dirs, files, git_rev, captured, discovered>>
    /\ UNCHANGED envVars /\ UNCHANGED syncVars /\ UNCHANGED uiVars
    /\ UNCHANGED outVars

\* Process k exits, having written what it had for standard error: with 0
\* when it has written all its output, with an error code at any point,
\* leaving its message on standard error.
ProcExit(k, code) ==
    /\ k \in 1..Len(procs)
    /\ procs[k].returncode = NoInt
    /\ procs[k].errtodo = <<>>
    /\ code = 0 => procs[k].todo = <<>>
    /\ procs' = [procs EXCEPT ![k].returncode = code,
                              ![k].stderr = IF code = 0 \/ procs[k].stderr # <<>>
                                            THEN @ ELSE RsyncStderr]
    /\ UNCHANGED <<loop, calls, log>>
    /\ UNCHANGED <<dirs, files, git_rev, captured, discovered>>
    /\ UNCHANGED envVars /\ UNCHANGED syncVars /\ UNCHANGED uiVars
    /\ UNCHANGED outVars

\* _run_and_check raises in the main thread instead of its own.
RunAndCheckInMainThread(k) ==
    /\ k \in 1..Len(procs)
    /\ procs[k].watcher = "waiting"
    /\ procs[k].returncode # NoInt
    /\ IF procs[k].returncode # 0
       THEN /\ procs' = [procs EXCEPT ![k].watcher = "raised"]
            /\ pc' = "failed"
       ELSE /\ procs' = [procs EXCEPT ![k].watcher = "returned"]
            /\ UNCHANGED pc
    /\ UNCHANGED <<loop, calls, log>>
    /\ UNCHANGED <<tool, rsync_cmds, dirs, files, git_rev, captured, discovered>>
    /\ UNCHANGED envVars /\ UNCHANGED uiVars
    /\ UNCHANGED outVars

\* _run_and_check, the watcher thread of process k, after process.wait():
\* a failure is printed (the command, then all of standard error) and the
\* thread ends with RuntimeError, which stays in that thread.
RunAndCheck(k) ==
    /\ k \in 1..Len(procs)
    /\ procs[k].watcher = "waiting"
    /\ procs[k].returncode # NoInt
    /\ IF procs[k].returncode # 0
       THEN LET cmd_str        == JoinWith(procs[k].cmd, " ")
                stderr_content == procs[k].stderr
            IN  /\ term' = echo(echo(term, red_block(cmd_str)), red_text(stderr_content))
                /\ procs' = [procs EXCEPT ![k].watcher = "raised",
                                          ![k].stderr = <<>>,
                                          ![k].report = <<cmd_str, stderr_content>>]
       ELSE /\ procs' = [procs EXCEPT ![k].watcher = "returned"]
            /\ UNCHANGED term
    /\ UNCHANGED <<loop, calls, log, ui_pc, ui, sent>>
    /\ UNCHANGED <<dirs, files, git_rev, captured, discovered>>
    /\ UNCHANGED envVars /\ UNCHANGED syncVars
    /\ UNCHANGED outVars

InitCanvas ==
    /\ ui_pc = "outside"
    /\ ui = NoUi
    /\ term = TermInit
    /\ sent = <<>>

InitNoSync ==
    /\ tool = NoTool
    /\ rsync_cmds = <<>>
    /\ captured = <<>>
    /\ discovered = <<>>
    /\ collect_runs = 0
    /\ result = NoResult
    /\ procs = <<>>
    /\ loop = NoLoop
    /\ calls = <<>>
    /\ exit_code = NoInt

\* One invocation of the sync command in some environment.
Init ==
    /\ cwd \in {PathOf(RootStr), PathOf(Under(RootStr, <<"sglang">>)), PathOf(HomeU)}
    /\ \E legal \in BOOLEAN, cache \in BOOLEAN, git \in BOOLEAN :
          dirs = BaseDirs \cup {Wt1Dir}
                 \cup (IF legal THEN {LegalDir} ELSE {})
                 \cup (IF cache THEN {CacheDir} ELSE {})
                 \cup (IF git THEN {SglangGit} ELSE {})
    /\ \E at \in {RootStr, Under(RootStr, <<"sglang">>)} :
          files = IgnoreFiles(at) @@ (Wt1Git :> <<>>) @@ BaseFiles
    /\ env_extra \in {<<>>, <<"legal", ",", "wt1">>}
    /\ NDA_DIRS \in {NdaDirsOf(<<>>), NdaDirsOf(<<"legal">>)}
    /\ git_worktrees \in {GitWorktrees(WtMain), GitWorktrees(WtOne), GitWorktrees(WtLegal)}
    /\ git_rev = 0
    /\ pc = "start"
    /\ log \in {<<>>, <<PriorLogItem>>}
    /\ InitNoSync
    /\ InitCanvas

ServerNames == {<<"prod">>, <<"prod", "-nda">>, <<"dev">>}
PathArgs == {None, <<"sglang">>, <<"a.py">>, <<"/", "tmp">>}

Next ==
    \/ \E server \in ServerNames : SyncUnknownServer(server)
    \/ \E server \in ServerNames : SyncRootNotFound(server)
    \/ \E server \in ServerNames, file_or_path \in PathArgs :
          SyncPathOutside(server, file_or_path)
    \/ \E server \in ServerNames, file_or_path \in PathArgs,
          delete \in BOOLEAN, git_repo \in BOOLEAN :
          SyncConstruct(server, file_or_path, delete, git_repo)
    \/ SyncCollect
    \/ SyncPlanHost
    \/ SyncConfirm

Spec == Init /\ [][Next]_vars

\* The canvas alone, driven by any sequence of update_char calls.
InitUi ==
    /\ cwd = PathOf(RootStr)
    /\ dirs = BaseDirs
    /\ files = BaseFiles
    /\ env_extra = <<>>
    /\ NDA_DIRS = <<>>
    /\ git_worktrees = GitWorktrees(<<>>)
    /\ git_rev = 0
    /\ pc = "idle"
    /\ log = <<>>
    /\ InitNoSync
    /\ InitCanvas

NextUi ==
    \/ \E max_lines \in 1..MaxLines : UiEnter(max_lines)
    \/ UiConstruct
    \/ UiConstructRaises
    \/ \E line \in 0..(MaxLines - 1), char \in Chars :
          line < ui.max_lines /\ UiUpdateChar(line, char)
    \/ UiBodyRaises
    \/ UiBodyEnds

SpecUi == InitUi /\ [][NextUi]_vars

\* ---- the run of one invocation.
\* One invocation from the sync root, up to its end: the plan, the prompt,
\* the transfers and the log.
InitRun ==
    /\ cwd = PathOf(RootStr)
    /\ dirs = BaseDirs \cup {Wt1Dir, SglangGit}
    /\ files = IgnoreFiles(RootStr) @@ (Wt1Git :> <<>>) @@ BaseFiles
    /\ env_extra = <<>>
    /\ NDA_DIRS = NdaDirsOf(<<>>)
    /\ git_worktrees = GitWorktrees(WtOne)
    /\ git_rev = 0
    /\ pc = "start"
    /\ log \in {<<>>, <<PriorLogItem>>}
    /\ InitNoSync
    /\ InitCanvas

RunServers == {<<"prod">>, <<"prod", "-nda">>}

\* The steps of the main thread from the polling loop on.
PollAndLog ==
    \/ UiThreadCheck
    \/ UiThreadRead
    \/ SyncWait
    \/ SyncLogOne

\* The steps of the main thread after the command line is accepted.
MainThread ==
    \/ SyncCollect
    \/ SyncPlanHost
    \/ SyncSpawn
    \/ UiThreadEnter
    \/ PollAndLog

NextRun ==
    \/ \E server \in RunServers : SyncConstruct(server, None, FALSE, FALSE)
    \/ MainThread
    \/ SyncConfirm
    \/ SyncConfirmEOF
    \/ SyncSpawnRaises
    \/ \E k \in 1..MaxHosts : ProcWrite(k)
    \/ \E k \in 1..MaxHosts, code \in ExitCodes : ProcExit(k, code)
    \/ \E k \in 1..MaxHosts : RunAndCheck(k)

SpecRun == InitRun /\ [][NextRun]_vars

\* UiThreadRead can be taken: the main thread is at a read that returns.
ReadEnabled == pc = "running" /\ loop.at = "read" /\ CanRead(procs[loop.i])

\* The interpreter keeps scheduling the main thread while it can take a step
\* of the polling loop or of what follows it; the user, the transfer
\* processes and the steps before the loop are under no obligation.  The
\* last conjunct is weak fairness of UiThreadRead with its enabling condition
\* written out.
SpecRunFair ==
    /\ SpecRun
    /\ WF_vars(UiThreadCheck)
    /\ WF_vars(SyncWait)
    /\ WF_vars(SyncLogOne)
    /\ ([]<>(~ReadEnabled) \/ []<><<UiThreadRead>>_vars)

\* The run with transfer processes that write to standard error while they
\* run.  Each process goes on while it can: it writes what it has to write
\* and then exits.
NextPipes ==
    \/ NextRun
    \/ \E k \in 1..MaxHosts, n \in {1, PipeCapacity + 1} : ProcError(k, n)
    \/ \E k \in 1..MaxHosts : ProcWriteStderr(k)

SpecPipes == InitRun /\ [][NextPipes]_vars

SpecPipesFair ==
    /\ SpecPipes
    /\ WF_vars(UiThreadCheck)
    /\ WF_vars(SyncWait)
    /\ WF_vars(SyncLogOne)
    /\ ([]<>(~ReadEnabled) \/ []<><<UiThreadRead>>_vars)
    /\ \A k \in 1..MaxHosts :
          /\ WF_vars(ProcWrite(k))
          /\ WF_vars(ProcWriteStderr(k))
          /\ WF_vars(\E code \in ExitCodes : ProcExit(k, code))

\* ---- sync_root from any working directory.
DirNames == { <<"common_sync">>, <<"a">>, <<"common_sync", "_old">> }
WorkingDirs ==
    { [root |-> TRUE, parts |-> p] : p \in UNION { [1..n -> DirNames] : n \in 0..MaxDepth } }

\* SyncTree().sync_root; FileNotFoundError ends the command.
ResolveRoot ==
    /\ pc = "idle"
    /\ result' = [op |-> "root", value |-> sync_root]
    /\ exit_code' = IF sync_root = NotFound THEN UncaughtException ELSE NoInt
    /\ pc' = "resolved"
    /\ UNCHANGED <<tool, rsync_cmds, dirs, files, git_rev, captured, discovered, collect_runs>>
    /\ UNCHANGED envVars /\ UNCHANGED uiVars /\ UNCHANGED runVars

InitRoot ==
    /\ cwd \in WorkingDirs
    /\ dirs = BaseDirs
    /\ files = BaseFiles
    /\ env_extra = <<>>
    /\ NDA_DIRS = <<>>
    /\ git_worktrees = GitWorktrees(<<>>)
    /\ git_rev = 0
    /\ pc = "idle"
    /\ log = <<>>
    /\ InitNoSync
    /\ InitCanvas

NextRoot == ResolveRoot

SpecRoot == InitRoot /\ [][NextRoot]_vars

\* ---- The cache over successive collect_all runs (one per sync invocation),
\* with the repositories and the tree changing between them, and the reader
\* commands of rgit run in between.  result and exit_code belong to the
\* reader command that ran last; they are gone when something else happens.
SnapCollectAll ==
    /\ pc \in {"snapshot", "collected"}
    /\ collect_runs < MaxRuns
    /\ ~DiscoveryRaises /\ ~CaptureRaises
    /\ LET d == collect_all
       IN  dirs' = d.dirs /\ files' = d.files /\ captured' = d.captured
    /\ discovered' = discover_worktree_map
    /\ pc' = "collected"
    /\ collect_runs' = collect_runs + 1
    /\ UNCHANGED <<tool, rsync_cmds, git_rev>>
    /\ UNCHANGED envVars /\ UNCHANGED uiVars
    /\ result' = NoResult /\ exit_code' = NoInt
    /\ UNCHANGED runVars

\* collect_all() ends with an exception: the KeyError of
\* discover_worktree_map, raised when repo_dirs is read for the loop, before
\* anything is captured or written; or the UnicodeDecodeError of a capture,
\* after the files of the captures before it have been written.
SnapCollectAllRaises ==
    /\ pc \in {"snapshot", "collected"}
    /\ IF DiscoveryRaises
       THEN /\ result' = [op |-> "raise", value |-> [t |-> "KeyError"]]
            /\ UNCHANGED <<dirs, files, captured>>
       ELSE /\ CaptureRaises
            /\ result' = [op |-> "raise", value |-> [t |-> "UnicodeDecodeError"]]
            /\ LET d == collect_all
               IN  dirs' = d.dirs /\ files' = d.files /\ captured' = d.captured
    /\ exit_code' = UncaughtException
    /\ pc' = "snapshot"
    /\ collect_runs' = 0
    /\ UNCHANGED <<tool, rsync_cmds, git_rev, discovered>>
    /\ UNCHANGED envVars /\ UNCHANGED uiVars
    /\ UNCHANGED runVars

\* A commit and an unstaged change are made in the repositories.
RepoChange ==
    /\ pc \in {"snapshot", "collected"}
    /\ git_rev < MaxRev
    /\ git_rev' = git_rev + 1
    /\ pc' = "snapshot"
    /\ UNCHANGED <<cwd, env_extra, NDA_DIRS, git_worktrees>>
    /\ UNCHANGED <<tool, rsync_cmds, dirs, files, captured, discovered>>
    /\ UNCHANGED uiVars
    /\ collect_runs' = 0
    /\ result' = NoResult /\ exit_code' = NoInt
    /\ UNCHANGED runVars

\* The modified file of sglang is saved as Latin-1 text: the last change made
\* to the repositories and the tree in a behaviour.
RepoEncodingChange ==
    /\ pc \in {"snapshot", "collected"}
    /\ git_rev = MaxRev
    /\ ~HasLatin1(<<"sglang">>)
    /\ files' = (ModifiedFile(<<"sglang">>) :> <<BYTE_E9, LF>>) @@ files
    /\ pc' = "snapshot"
    /\ UNCHANGED <<cwd, env_extra, NDA_DIRS, git_worktrees, git_rev>>
    /\ UNCHANGED <<tool, rsync_cmds, dirs, captured, discovered>>
    /\ UNCHANGED uiVars
    /\ collect_runs' = 0
    /\ result' = NoResult /\ exit_code' = NoInt
    /\ UNCHANGED runVars

\* The worktree list of sglang changes (worktree add, remove, git failing).
WorktreeListChange(out) ==
    /\ pc \in {"snapshot", "collected"}
    /\ ~HasLatin1(<<"sglang">>)
    /\ git_worktrees # GitWorktrees(out)
    /\ git_worktrees' = GitWorktrees(out)
    /\ pc' = "snapshot"
    /\ UNCHANGED <<cwd, env_extra, NDA_DIRS, git_rev>>
    /\ UNCHANGED <<tool, rsync_cmds, dirs, files, captured, discovered>>
    /\ UNCHANGED uiVars
    /\ collect_runs' = 0
    /\ result' = NoResult /\ exit_code' = NoInt
    /\ UNCHANGED runVars

\* The directory of worktree wt1 is deleted from the disk, or put back.
WorktreeDirChange ==
    /\ pc \in {"snapshot", "collected"}
    /\ ~HasLatin1(<<"sglang">>)
    /\ dirs' = IF Wt1Dir \in dirs THEN dirs \ {Wt1Dir} ELSE dirs \cup {Wt1Dir}
    /\ files' = IF Wt1Dir \in dirs
                THEN [f \in DOMAIN files \ {Wt1Git} |-> files[f]]
                ELSE (Wt1Git :> <<>>) @@ files
    /\ pc' = "snapshot"
    /\ UNCHANGED <<cwd, env_extra, NDA_DIRS, git_worktrees, git_rev>>
    /\ UNCHANGED <<tool, rsync_cmds, captured, discovered>>
    /\ UNCHANGED uiVars
    /\ collect_runs' = 0
    /\ result' = NoResult /\ exit_code' = NoInt
    /\ UNCHANGED runVars

\* sglang stops being a git repository (its .git is removed), or becomes one.
RepoGitChange ==
    /\ pc \in {"snapshot", "collected"}
    /\ ~HasLatin1(<<"sglang">>)
    /\ dirs' = IF SglangGit \in dirs THEN dirs \ {SglangGit} ELSE dirs \cup {SglangGit}
    /\ pc' = "snapshot"
    /\ UNCHANGED <<cwd, env_extra, NDA_DIRS, git_worktrees, git_rev>>
    /\ UNCHANGED <<tool, rsync_cmds, files, captured, discovered>>
    /\ UNCHANGED uiVars
    /\ collect_runs' = 0
    /\ result' = NoResult /\ exit_code' = NoInt
    /\ UNCHANGED runVars

\* rgit: _read_or_exit(repo, filename), the read behind every view command.
\* FileNotFoundError is reported and the command exits with status 1.
RgitReadOrExit(repo, filename) ==
    /\ pc \in {"snapshot", "collected"}
    /\ result' = [op |-> "read", repo |-> repo, filename |-> filename,
                  value |-> read_file(repo, filename)]
    /\ exit_code' = IF read_file(repo, filename) = None
                    THEN ExitStatus([t |-> "int", v |-> 1]) ELSE NoInt
    /\ UNCHANGED <<pc, tool, rsync_cmds, dirs, files, git_rev, captured, discovered, collect_runs>>
    /\ UNCHANGED envVars /\ UNCHANGED uiVars /\ UNCHANGED runVars

\* GitMetaReader.read_worktree_map()
RgitReadWorktreeMap ==
    /\ pc \in {"snapshot", "collected"}
    /\ result' = [op |-> "map", value |-> read_worktree_map]
    /\ exit_code' = NoInt
    /\ UNCHANGED <<pc, tool, rsync_cmds, dirs, files, git_rev, captured, discovered, collect_runs>>
    /\ UNCHANGED envVars /\ UNCHANGED uiVars /\ UNCHANGED runVars

ReadRepos == {<<"sglang">>, <<"my-toolbox">>}
ReadViews == {<<"diff", ".txt">>, <<"tags", ".txt">>}

InitSnap ==
    /\ cwd = PathOf(RootStr)
    /\ dirs = BaseDirs \cup {Wt1Dir, SglangGit}
    /\ files = (Wt1Git :> <<>>) @@ BaseFiles
    /\ env_extra = <<>>
    /\ NDA_DIRS = <<>>
    /\ git_worktrees = GitWorktrees(WtMain)
    /\ git_rev = 0
    /\ pc = "snapshot"
    /\ log = <<>>
    /\ InitNoSync
    /\ InitCanvas

NextSnap ==
    \/ SnapCollectAll
    \/ SnapCollectAllRaises
    \/ RepoChange
    \/ RepoEncodingChange
    \/ \E out \in WorktreeOutputs : WorktreeListChange(out)
    \/ WorktreeDirChange
    \/ RepoGitChange
    \/ \E repo \in ReadRepos, filename \in ReadViews : RgitReadOrExit(repo, filename)
    \/ RgitReadWorktreeMap

SpecSnap == InitSnap /\ [][NextSnap]_vars

(***************************************************************************)
(* Properties of the transfer planner (specification Spec).                *)
(***************************************************************************)
OptionHeads == {"rsync", "-ah", "--delete", "--info=progress2", "--exclude-from=", "--exclude=.git"}

\* The destination argument and the source arguments of a generated command.
Dest(cmd) == cmd[Len(cmd)]
Sources(cmd) == SelectSeq(SubSeq(cmd, 1, Len(cmd) - 1), LAMBDA a : Head(a) \notin OptionHeads)
Among(x, seq) == \E i \in 1..Len(seq) : seq[i] = x
EndsWithSep(str) == str # <<>> /\ str[Len(str)] = SEP
Planned == pc \in {"plan", "confirmed"}

\* C1: a server with N >= 1 hosts gets exactly N commands, the k-th for the
\* k-th host, and its destination is "<host>:" followed by base_dir joined with
\* the source path relative to the parent of the sync root.
C1_OneCommandPerHost ==
    Planned =>
        LET cfg   == DictGet(config_dict, tool.server)
            hosts == IF cfg.hosts.list THEN cfg.hosts.val ELSE << cfg.hosts.val >>
            rel   == RelativeTo(tool.local_dir, Parent(sync_root))
            want  == AsPosix(JoinPath(PathOf(cfg.base_dir), rel))
        IN  /\ Len(rsync_cmds) <= Len(hosts)
            /\ pc = "confirmed" => Len(rsync_cmds) = Len(hosts)
            /\ \A k \in 1..Len(rsync_cmds) :
                  Dest(rsync_cmds[k]) = hosts[k] \o <<":">> \o want

C1_Witness ==
    /\ pc = "confirmed"
    /\ Len(rsync_cmds) >= 2
    /\ tool.file_or_path = <<"sglang">>
    /\ tool.local_dir = PathOf(Under(RootStr, <<"sglang">>))

\* C2: for a directory source the source and destination arguments of every
\* command end with the path separator, for a file source they do not.
C2_TrailingSeparator ==
    Planned =>
        \A k \in 1..Len(rsync_cmds) :
            LET args == Append(Sources(rsync_cmds[k]), Dest(rsync_cmds[k]))
            IN  \A i \in 1..Len(args) : EndsWithSep(args[i]) <=> IsDir(tool.local_dir)

\* C3: the unit transferred is the sync root when no path is given and the
\* given path otherwise, and it appears among the sources of every command.
C3_UnitIsTransferred ==
    Planned =>
        LET unit == IF tool.file_or_path = None THEN sync_root
                    ELSE JoinPath(cwd, PathOf(tool.file_or_path))
        IN  \A k \in 1..Len(rsync_cmds) :
                \E i \in 1..Len(Sources(rsync_cmds[k])) :
                    PathOf(Sources(rsync_cmds[k])[i]) = unit

\* C4: every command has --delete iff delete was asked for, --exclude=.git iff
\* git history was not asked for, always the exclusion of the toolbox-wide
\* ignore file, and the exclusion of the local ignore file iff the source
\* directory has one.
C4_OptionsFollowFlags ==
    Planned =>
        LET local_ignore == JoinPath(tool.local_dir, PathOf(<<".gitignore">>))
        IN  \A k \in 1..Len(rsync_cmds) :
                /\ Among(<<"--delete">>, rsync_cmds[k]) <=> tool.delete
                /\ Among(<<"--exclude=.git">>, rsync_cmds[k]) <=> ~tool.git_repo
                /\ Among(<<"--exclude-from=">> \o RSYNCIGNORE, rsync_cmds[k])
                /\ Among(<<"--exclude-from=">> \o AsPosix(local_ignore), rsync_cmds[k])
                       <=> Exists(local_ignore)

C4_Witness ==
    /\ pc = "confirmed"
    /\ tool.delete /\ tool.git_repo
    /\ Exists(JoinPath(tool.local_dir, PathOf(<<".gitignore">>)))
    /\ tool.file_or_path # None
    /\ Len(rsync_cmds) >= 2

\* C5: an NDA directory that exists on disk is among the sources of the
\* commands for a server whose name ends with "-nda", and among the sources of
\* no command for any other server.
C5_NdaOnlyForRestricted ==
    Planned =>
        \A k \in 1..Len(rsync_cmds), i \in 1..Len(NDA_DIRS) :
            LET nda == JoinPath(tool.local_dir, PathOf(NDA_DIRS[i]))
            IN  Exists(nda) =>
                    (Among(AsPosix(nda), Sources(rsync_cmds[k]))
                        <=> EndsWith(tool.server, <<"-nda">>))

\* C6: when the snapshot cache directory exists it is among the sources of
\* every command.
C6_CacheAlwaysShipped ==
    Planned =>
        (IsDir(git_meta_dir) =>
            \A k \in 1..Len(rsync_cmds) :
                Among(AsPosix(git_meta_dir), Sources(rsync_cmds[k])))

C6_Witness ==
    /\ pc = "confirmed"
    /\ IsDir(git_meta_dir)
    /\ tool.file_or_path = <<"a.py">>
    /\ tool.delete /\ ~tool.git_repo
    /\ rsync_cmds # <<>>

(***************************************************************************)
(* Properties of the canvas (specification SpecUi).                        *)
(***************************************************************************)
\* What row y of the screen shows: its cells up to the last one that is not blank.
RECURSIVE Shown(_)
Shown(row) ==
    IF row # <<>> /\ row[Len(row)] = " " THEN Shown(SubSeq(row, 1, Len(row) - 1)) ELSE row
RowText(y) == Shown(term.cells[y])

\* C7 as stated: the screen shows on line i exactly the characters sent to
\* line i since its last reset.
C7_ScreenEqualsSent ==
    \A i \in 1..Len(sent) : RowText(i - 1) = sent[i]

\* C8: the cursor is hidden inside the scope of ui_tool and is visible after
\* every exit from it: the body ended, the body raised, construction failed.
C8_CursorRestored ==
    /\ ui_pc \in {"entered", "yielded"} => ~term.visible
    /\ ui_pc \in {"exited", "swallowed", "failed"} => term.visible

C8_Witness == ui_pc = "swallowed" /\ sent # <<>> /\ sent[1] # <<>>

(***************************************************************************)
(* Properties of the snapshot cache (specification SpecSnap).              *)
(***************************************************************************)
\* C9: after collect_all, for every repository the cache lists and every
\* view, read_file returns exactly what the capture command of that
\* collect_all wrote to standard output.
C9_ReadReturnsCapturedOutput ==
    pc = "collected" =>
        \A repo \in list_repos, filename \in FileNames :
            <<repo, filename>> \in DOMAIN captured =>
                read_file(repo, filename) = captured[<<repo, filename>>]

\* C10: after the worktree map is written, read_worktree_map returns the
\* mapping that was written: same keys and entries in the same order.
C10_WorktreeMapRoundTrip ==
    pc = "collected" => read_worktree_map = discovered

\* C11: a collect_all run that directly follows a collect_all run, with no
\* change to the repositories or the tree in between, leaves every snapshot
\* file and the worktree map (every file and directory on disk) as they were.
C11_CollectAllIdempotent ==
    [][(pc = "collected" /\ pc' = "collected") => (files' = files /\ dirs' = dirs)]_vars

C11_Witness ==
    /\ pc = "collected"
    /\ collect_runs = 2
    /\ git_rev > 0
    /\ captured # <<>>
    /\ discovered # <<>>

\* The paths `git worktree list --porcelain` lists, in its order.
ListedPaths(out) ==
    LET lines == SelectSeq(out, LAMBDA l : l # <<>> /\ Head(l) = "worktree ")
    IN  [i \in 1..Len(lines) |-> PathOf(Tail(lines[i]))]

EntryNames(entries) == [i \in 1..Len(entries) |-> DictGet(entries[i], <<"name">>)]

\* C12: the entries discover_worktree_map returns for a repository are the
\* listed worktrees whose directory exists under the sync root, in the order
\* listed; a listed worktree whose directory is gone or lies elsewhere is
\* dropped, and a repository left with no entry is not in the map.
C12_EntriesExistUnderRoot ==
    pc = "collected" =>
        \A i \in 1..Len(BASE_SYNC_DIRS) :
            LET repo == BASE_SYNC_DIRS[i]
                live == SelectSeq(ListedPaths(git_worktrees[repo]),
                                  LAMBDA p : IsDir(p) /\ IsRelativeTo(p, sync_root))
                got  == IF DictHas(discovered, repo)
                        THEN EntryNames(DictGet(discovered, repo)) ELSE <<>>
            IN  /\ is_git_repo(JoinPath(sync_root, PathOf(repo))) =>
                       got = [k \in 1..Len(live) |-> Name(live[k])]
                /\ DictHas(discovered, repo) => got # <<>>

\* A sequence without the later occurrences of its elements.
RECURSIVE Dedup(_, _)
Dedup(seq, seen) ==
    IF seq = <<>> THEN <<>>
    ELSE IF Head(seq) \in seen THEN Dedup(Tail(seq), seen)
    ELSE <<Head(seq)>> \o Dedup(Tail(seq), seen \cup {Head(seq)})

RECURSIVE AllEntryNames(_)
AllEntryNames(wt_map) ==
    IF wt_map = <<>> THEN <<>>
    ELSE EntryNames(Head(wt_map)[2]) \o AllEntryNames(Tail(wt_map))

\* C16: sync_dirs is the base list, then the discovered worktree names that
\* are not yet in the list, each once, then the names of
\* LSYNC_EXTRA_SYNC_DIRS, in that order.
C16_SyncDirsOrder ==
    pc = "collected" =>
        sync_dirs =
            BASE_SYNC_DIRS
            \o Dedup(AllEntryNames(discovered),
                     {BASE_SYNC_DIRS[i] : i \in 1..Len(BASE_SYNC_DIRS)})
            \o (IF env_extra = <<>> THEN <<>> ELSE SplitOn(env_extra, ","))

\* C14: a read of a repository and view with no file in the cache fails with
\* FileNotFoundError (the command exits with a non-zero status) and a read of
\* one that has a file does not; read_worktree_map returns the empty mapping
\* when worktrees.json does not exist; no read changes the disk.
C14_ReadNotFound ==
    [][(result' # result /\ result'.op \in {"read", "map"}) =>
          /\ files' = files /\ dirs' = dirs
          /\ result'.op = "read" =>
                /\ result'.value = None
                       <=> ~Exists(MetaFile(result'.repo, result'.filename))
                /\ result'.value = None => exit_code' > 0
          /\ result'.op = "map" =>
                (~Exists(JoinPath(git_meta_dir, PathOf(WORKTREE_MAP_FILE)))
                     => result'.value = <<>>)]_vars

C14_Witness ==
    /\ result.op = "read"
    /\ result.value = None
    /\ result.filename = <<"tags", ".txt">>
    /\ IsDir(JoinPath(git_meta_dir, PathOf(result.repo)))

\* The lines this invocation appended to the log.
Appended == SelectSeq(log, LAMBDA item : item.now_str = <<"now">>)

\* C13: a run gets past its start only with a server that is a key of the
\* configuration; when the server is not a key the command has failed with a
\* non-zero exit status and nothing has happened: no snapshot collected, no
\* SyncTool constructed, no process spawned, no line appended to the log.
C13_UnknownServerFails ==
    /\ pc \notin {"start", "failed"} => DictHas(config_dict, tool.server)
    /\ (result.op = "raise" /\ result.value.t = "str") =>
          /\ pc = "failed"
          /\ exit_code > 0
          /\ collect_runs = 0 /\ captured = <<>>
          /\ tool = NoTool /\ rsync_cmds = <<>>
          /\ procs = <<>>
          /\ Appended = <<>>

C13_Witness ==
    /\ pc = "failed"
    /\ result.op = "raise"
    /\ result.value = InvalidServer(<<"dev">>)
    /\ log # <<>>

\* The positions of the components of the working directory that bear a
\* marker name.
Marked == { k \in 1..Len(cwd.parts) : cwd.parts[k] \in TOP_DIRS }

\* C15: sync_root returns the nearest ancestor of the working directory, the
\* directory itself included, whose name is a marker, and raises exactly when
\* no directory from the working directory up to "/" has a marker name.
C15_NearestMarkedAncestor ==
    result.op = "root" =>
        IF Marked = {} THEN result.value = NotFound
        ELSE LET last == CHOOSE k \in Marked : \A j \in Marked : j <= k
             IN  result.value = [root |-> TRUE, parts |-> SubSeq(cwd.parts, 1, last)]

C15_Witness ==
    /\ result.op = "root"
    /\ Cardinality(Marked) >= 2
    /\ Name(cwd) \notin TOP_DIRS
    /\ result.value # NotFound

(***************************************************************************)
(* The run: prompt, transfers, polling loop, log                           *)
(***************************************************************************)
\* The prompt has not been acknowledged: sync() is before input(), in it, or
\* input() has ended the command with EOFError.
Unacknowledged ==
    \/ pc \in {"start", "collect", "plan"}
    \/ pc = "failed" /\ result = [op |-> "raise", value |-> [t |-> "EOFError"]]

\* C17: a transfer process exists only after collect_all has completed and the
\* prompt has been acknowledged; while the prompt is unacknowledged, and when
\* it ended without an acknowledgment, there is no transfer process and this
\* run has appended nothing to the log.
C17_NoTransferBeforeAcknowledgment ==
    /\ procs # <<>> => collect_runs >= 1 /\ ~Unacknowledged
    /\ Unacknowledged => procs = <<>> /\ Appended = <<>>

C17_Witness == pc = "confirmed" /\ procs # <<>> /\ collect_runs = 1

\* The characters update_char was called with for a line, in order.
CharsSentTo(line) ==
    LET on_line == SelectSeq(calls, LAMBDA call : call[1] = line)
    IN  [j \in 1..Len(on_line) |-> on_line[j][2]]

\* C18: from the start of the polling loop on there is exactly one transfer
\* process for each planned command, in the order of the host list; process k
\* (counted from 0, as the host list is) owns line k of the canvas, and the
\* characters passed to update_char for line k are exactly the characters
\* read from the standard output of process k, so none of them went to
\* another line.
C18_OneProcessOneLine ==
    pc \in {"running", "waiting", "done"} =>
        /\ Len(procs) = Len(rsync_cmds)
        /\ Len(procs) = Len(tool.hosts)
        /\ ui.max_lines = Len(procs)
        /\ \A k \in 1..Len(procs) :
              /\ procs[k].cmd = rsync_cmds[k]
              /\ SubSeq(Dest(procs[k].cmd), 1, Len(tool.hosts[k]) + 1) = tool.hosts[k] \o <<":">>
              /\ CharsSentTo(k - 1) = procs[k].read
        /\ \A j \in 1..Len(calls) : calls[j][1] \in 0..(Len(procs) - 1)

C18_Witness ==
    /\ pc = "running"
    /\ Len(procs) >= 2
    /\ procs[1].read # <<>>
    /\ procs[2].read # <<>>

\* Transfer process k has not exited yet.
StillRunning(k) == procs[k].returncode = NoInt

\* C19: a step that leaves the polling loop is taken only when every transfer
\* process has an exit status; a step that appends to the log is taken only
\* after the loop, when wait() has returned for every process, and it is the
\* step that reaches Done; no log line of this run exists while a process is
\* still running.
C19_LogAfterAllExited ==
    [][ /\ (pc = "running" /\ pc' # "running") =>
              \A k \in 1..Len(procs) : ~StillRunning(k)
        /\ log' # log =>
              /\ pc = "waiting" /\ pc' = "done"
              /\ loop.i = Len(procs) + 1
              /\ \A k \in 1..Len(procs) : ~StillRunning(k)
        /\ (\E k \in 1..Len(procs') : procs'[k].returncode = NoInt) =>
              log' = log /\ Appended' = <<>> ]_vars

C19_Witness ==
    /\ pc = "done"
    /\ Len(procs) >= 2
    /\ Len(Appended) = 1

\* Transfer process k has exited with a non-zero status.
Failed(k) == procs[k].returncode \notin {NoInt, 0}

\* What a step does to the transfers: process k fails or its watcher reports.
FailureStep(k) ==
    /\ k \in 1..Len(procs)
    /\ Len(procs') = Len(procs)
    /\ procs'[k].returncode \notin {NoInt, 0}
    /\ procs'[k] # procs[k]
    /\ procs'[k].read = procs[k].read

\* C20: the watcher of a failed transfer reports the command line and all of
\* the standard error of that transfer, and reports nothing for a transfer
\* that exited with 0; the step in which a transfer fails or is reported
\* changes no other transfer, does not end the command and sets no exit
\* status; and once the polling loop runs, whichever transfers have failed,
\* when all of them have exited the command reaches Done with exit status 0
\* and one new line in the log.
C20_FailureIsReportedNotFatal ==
    /\ [](\A k \in 1..Len(procs) :
             /\ procs[k].watcher = "raised" =>
                   /\ Failed(k)
                   /\ procs[k].report = <<JoinWith(procs[k].cmd, " "), RsyncStderr>>
             /\ procs[k].watcher = "returned" => procs[k].returncode = 0 /\ procs[k].report = <<>>)
    /\ [][\A k \in 1..Len(procs) : FailureStep(k) =>
             /\ \A j \in 1..Len(procs) : j # k => procs'[j] = procs[j]
             /\ pc' = pc /\ exit_code' = exit_code /\ loop' = loop /\ log' = log]_vars
    /\ [](pc = "failed" => procs = <<>> \/ Len(procs) < Len(rsync_cmds))
    /\ ((/\ pc \in {"running", "waiting"}
         /\ \E k \in 1..Len(procs) : Failed(k)
         /\ \A k \in 1..Len(procs) : ~StillRunning(k))
        ~> (pc = "done" /\ exit_code = 0 /\ Len(Appended) = 1))

C20_Witness ==
    /\ pc = "done"
    /\ Len(Appended) = 1
    /\ \E k \in 1..Len(procs) : Failed(k) /\ procs[k].watcher = "raised"
    /\ \E k \in 1..Len(procs) : procs[k].returncode = 0 /\ procs[k].todo = <<>>

\* C21: a read of the polling loop never waits: whenever the main thread is at
\* the read of a process that has written nothing unread and has not exited,
\* while another process has output waiting in its pipe, the main thread can
\* take its step and go on to the next process.
C21_ReadsNeverBlock ==
    \A j \in 1..Len(procs) :
        (/\ pc = "running"
         /\ loop.at = "read"
         /\ procs[loop.i].pipe = <<>>
         /\ procs[loop.i].returncode = NoInt
         /\ procs[j].pipe # <<>>) => ReadEnabled

CommandOf(filename) ==
    LET i == CHOOSE i \in 1..Len(GIT_COMMANDS) : GIT_COMMANDS[i][1] = filename
    IN  GIT_COMMANDS[i][2]

\* C23: of the commands collect_all has run for the captured files, the one
\* for log.txt carries the entry limit and no other does: not the one for
\* log_all.txt, and none of status, branch, diff_stat and diff.
C23_LimitOnlyOnLog ==
    \A key \in DOMAIN captured :
        HasArg(FullCmd(key[2], CommandOf(key[2])), <<"-", ToString(LOG_LIMIT)>>)
            <=> key[2] = <<"log", ".txt">>

\* A file of the disk that lies in the cache directory.
InCache(f) ==
    LET prefix == AsPosix(git_meta_dir) \o <<SEP>>
    IN  Len(f) > Len(prefix) /\ SubSeq(f, 1, Len(prefix)) = prefix

WorktreeMapPath == AsPosix(JoinPath(git_meta_dir, PathOf(WORKTREE_MAP_FILE)))

\* C24: right after a collect_all run the cache is the snapshot of that run:
\* the worktree map file exists and holds the map discovered in the run, and
\* every other file of the cache is a file the run captured.
C24_CacheIsLatestRun ==
    pc = "collected" =>
        /\ WorktreeMapPath \in DOMAIN files
        /\ files[WorktreeMapPath] = JsonDumps(discovered)
        /\ \A f \in DOMAIN files :
              InCache(f) /\ f # WorktreeMapPath =>
                  \E key \in DOMAIN captured : f = AsPosix(MetaFile(key[1], key[2]))

\* A step in which collect_all() ran to its end or ended with an exception.
CollectAllEnded ==
    \/ collect_runs' = collect_runs + 1
    \/ result'.op = "raise" /\ result # result'

\* C25: a failure of git in one repository is isolated.  Whatever git worktree
\* list printed for a base repository, non-zero exit with no output or output
\* outside the porcelain format included, a run of collect_all() ends without
\* an exception and has captured every git repository among the base
\* directories.
C25_GitFailureIsIsolated ==
    [][CollectAllEnded =>
          /\ pc' = "collected"
          /\ \A i \in 1..Len(BASE_SYNC_DIRS) :
                is_git_repo(JoinPath(sync_root, PathOf(BASE_SYNC_DIRS[i]))) =>
                    <<BASE_SYNC_DIRS[i], <<"log", ".txt">>>> \in DOMAIN captured']_vars

\* C26: the history log is append-only.  Every step leaves the log as it was
\* or adds one record at its end; the step that reaches Done adds exactly one
\* record, the record of this run, and the entry read back and printed in the
\* Done line is that record.
C26_LogAppendOnly ==
    [][/\ \/ log' = log
          \/ Len(log') = Len(log) + 1 /\ SubSeq(log', 1, Len(log)) = log
       /\ (pc' = "done" /\ pc # "done") =>
             /\ Len(log') = Len(log) + 1
             /\ log'[Len(log')] =
                  LogItem(<<"now">>, AsPosix(RelativeTo(tool.local_dir, Parent(sync_root))),
                          tool.hosts, tool.delete, tool.git_repo)
             /\ result' = [op |-> "last", value |-> log'[Len(log')]]
             /\ term' = echo(term, DoneLine(log'[Len(log')]))]_vars

\* Done is reached with a record of an earlier run in the log.
C26_Witness ==
    /\ pc = "done"
    /\ Len(log) = 2
    /\ log[1] = PriorLogItem
    /\ result = [op |-> "last", value |-> log[2]]

\* C27: when the run reaches Done, every character a transfer process wrote
\* to its standard output has been read by the polling loop and passed to
\* update_char for the line of the process: no pipe still holds output.
C27_NoOutputDropped ==
    pc = "done" =>
        \A k \in 1..Len(procs) :
            /\ procs[k].pipe = <<>>
            /\ Len(SelectSeq(calls, LAMBDA c : c[1] = k - 1))
                  = Len(RsyncOutput) - Len(procs[k].todo)

\* C28: once the polling loop runs over the spawned transfer processes, the
\* command eventually reaches Done, given that every process writes what it
\* has for standard output and standard error and exits as soon as it can,
\* through pipes that hold PipeCapacity characters.
C28_EventuallyDone == (pc = "running") ~> (pc = "done")

\* C29: after the construction of the canvas and after every update_char the
\* recorded cursor is parked at (max_lines, 0) and line_pos[i] is the number
\* of characters other than line breaks sent to line i since its last line
\* break; a step that sends a character to one line leaves line_pos of every
\* other line as it was.
C29_ParkedAndCounted ==
    /\ [](ui_pc = "yielded" =>
             /\ ui.cur_line = ui.max_lines /\ ui.cur_col = 0
             /\ Len(ui.line_pos) = ui.max_lines
             /\ \A i \in 1..ui.max_lines : ui.line_pos[i] = Len(sent[i]))
    /\ [][ui_pc = "yielded" /\ ui_pc' = "yielded" =>
             \A i \in 1..ui.max_lines :
                 sent'[i] # sent[i] =>
                     \A j \in 1..ui.max_lines : j # i => ui'.line_pos[j] = ui.line_pos[j]]_vars

\* One line has been restarted by a line break and written to again, while
\* another line is full.
C29_Witness ==
    /\ ui_pc = "yielded"
    /\ \E i, j \in 1..ui.max_lines :
          /\ i # j
          /\ Len(sent[i]) = 1 /\ Len(RowText(i - 1)) = MaxCol
          /\ Len(sent[j]) = MaxCol

\* C30: every repository list_repos returns is fully readable: in every
\* state of the cache that runs of collect_all() lead to, each of the six
\* views of each listed repository exists, so that read_file finds it.
C30_ListedReposFullyReadable ==
    \A repo \in list_repos, filename \in FileNames : Exists(MetaFile(repo, filename))

====
